---- MODULE Spec2Model ----
(***************************************************************************)
(* A model of the Micropolis simulation core (class Micropolis, with its   *)
(* TileMap/GameMap grids and its tool engine).  The simulation instance is *)
(* the record `sim`; every field of the record carries the name of the     *)
(* field of the class it models.  Operations are operators from a state    *)
(* record to the set of state records the call can end in: the set has     *)
(* more than one element exactly where the code draws random numbers.      *)
(***************************************************************************)
EXTENDS Integers, Sequences, FiniteSets, TLC

VARIABLES
    sim,        \* the Micropolis instance
    twin,       \* a second Micropolis instance (SpecDet drives both)
    op,         \* the last call made on the instance and what it returned
    calls,      \* how many tool calls were made (at most MaxToolCalls)
    frames,     \* how many simFrame calls were made (at most MaxFrames)
    lastScan    \* the power grid as the most recent power scan left it

vars == <<sim, twin, op, calls, frames, lastScan>>

(***************************************************************************)
(* Bounds of the model.                                                    *)
(***************************************************************************)
WORLD_W == 8
WORLD_H == 7
MaxToolCalls == 2
MaxSeed == 0
MaxFrames == 26
MaxSprites == 1
MaxEarlier == 2
MaxDetFrames == 6
MaxLineCalls == 3
MaxRazeCalls == 10
MaxPlanCalls == 5
MaxToolRow == 3
MaxWires == 24
MaxScans == 2

(***************************************************************************)
(* TileBits (core/tiles.ts).                                               *)
(***************************************************************************)
PWRBIT == 32768
CONDBIT == 16384
BURNBIT == 8192
BULLBIT == 4096
ANIMBIT == 2048
ZONEBIT == 1024
LOMASK == 1023
WORDSIZE == 65536

(***************************************************************************)
(* Tiles (core/tiles.ts).                                                  *)
(***************************************************************************)
DIRT == 0
RIVER == 2
FIRSTRIVEDGE == 5
WATER_LOW == 2
WATER_HIGH == 20
TREEBASE == 21
WOODS == 37
RUBBLE == 44
LASTRUBBLE == 47
FLOOD == 48
RADTILE == 52
FIRE == 56
HBRIDGE == 64
ROADBASE == 64
VBRIDGE == 65
ROADS == 66
INTERSECTION == 76
HTRFBASE == 144
LASTROAD == 206
POWERBASE == 208
LHPOWER == 210
LVPOWER10 == 220
LASTPOWER == 222
RAILBASE == 224
LHRAIL == 226
LVRAIL10 == 236
LASTRAIL == 238
RESBASE == 240
FREEZ == 244
HOUSE == 249
RZB == 265
HOSPITALBASE == 405
HOSPITAL == 409
CHURCHBASE == 414
CHURCH == 418
COMBASE == 423
COMCLR == 427
CZB == 436
INDBASE == 612
INDCLR == 616
IZB == 625
PORTBASE == 693
PORT == 698
AIRPORTBASE == 709
AIRPORT == 716
COALBASE == 745
POWERPLANT == 750
FIRESTBASE == 761
FIRESTATION == 765
POLICESTBASE == 770
POLICESTATION == 774
STADIUMBASE == 779
STADIUM == 784
FULLSTADIUM == 800
NUCLEARBASE == 811
NUCLEAR == 816
FOUNTAIN == 840
COALSMOKE1 == 916
COALSMOKE2 == 920
COALSMOKE3 == 924
COALSMOKE4 == 928
CHURCH1 == 960
CHURCH7 == 1014

(***************************************************************************)
(* Arithmetic of the 16-bit cell word.                                     *)
(***************************************************************************)
HasBit(tile, bit) == (tile \div bit) % 2 = 1
SetBit(tile, bit) == IF HasBit(tile, bit) THEN tile ELSE tile + bit
ClearBit(tile, bit) == IF HasBit(tile, bit) THEN tile - bit ELSE tile
getTileValue(tile) == tile % (LOMASK + 1)
isZoneCenter(tile) == HasBit(tile, ZONEBIT)

Min(S) == CHOOSE a \in S : \A b \in S : a <= b
Max(S) == CHOOSE a \in S : \A b \in S : a >= b
Abs(a) == IF a < 0 THEN -a ELSE a

\* v itself: the comparison has TLC work the value out in full, once, where
\* it would otherwise work a function out anew each time it is applied
Table(v) == IF v = v THEN v ELSE v

(***************************************************************************)
(* TileMap (core/map.ts): a cell is addressed by <<x, y>>.                 *)
(***************************************************************************)
Cells == (0 .. WORLD_W - 1) \X (0 .. WORLD_H - 1)
onMap(x, y) == x >= 0 /\ x < WORLD_W /\ y >= 0 /\ y < WORLD_H
getTile(m, x, y) == IF onMap(x, y) THEN m[<<x, y>>] ELSE 0
\* setTile as it would be if it wrote data[x * WORLD_H + y] wherever that index
\* falls inside the array, without the onMap test
setTileByIndex(m, x, y, value) ==
    LET i == x * WORLD_H + y
    IN  IF i >= 0 /\ i < WORLD_W * WORLD_H
        THEN [m EXCEPT ![<<i \div WORLD_H, i % WORLD_H>>] = value % WORDSIZE]
        ELSE m

setTile(m, x, y, value) ==
    IF onMap(x, y) THEN [m EXCEPT ![<<x, y>>] = value % WORDSIZE] ELSE m
ClearTileMap == [c \in Cells |-> 0]

(***************************************************************************)
(* ToolResult, EditingTool and TOOL_COSTS (core/types.ts).                 *)
(***************************************************************************)
ToolResult == {"NO_MONEY", "NEED_BULLDOZE", "FAILED", "OK"}
EditingTool ==
    {"RESIDENTIAL", "COMMERCIAL", "INDUSTRIAL", "FIRESTATION", "POLICESTATION",
     "QUERY", "WIRE", "BULLDOZER", "RAILROAD", "ROAD", "STADIUM", "PARK",
     "SEAPORT", "COALPOWER", "NUCLEARPOWER", "AIRPORT", "NETWORK",
     "WATER", "LAND", "FOREST", "COUNT"}
TOOL_COSTS ==
    [t \in EditingTool |->
        CASE t = "RESIDENTIAL" -> 100
          [] t = "COMMERCIAL" -> 100
          [] t = "INDUSTRIAL" -> 100
          [] t = "FIRESTATION" -> 500
          [] t = "POLICESTATION" -> 500
          [] t = "QUERY" -> 0
          [] t = "WIRE" -> 5
          [] t = "BULLDOZER" -> 1
          [] t = "RAILROAD" -> 20
          [] t = "ROAD" -> 10
          [] t = "STADIUM" -> 5000
          [] t = "PARK" -> 10
          [] t = "SEAPORT" -> 3000
          [] t = "COALPOWER" -> 3000
          [] t = "NUCLEARPOWER" -> 5000
          [] t = "AIRPORT" -> 10000
          [] t = "NETWORK" -> 100
          [] OTHER -> 0]

(***************************************************************************)
(* Random (getRandom): getRandom(range) returns a value of 0 .. range.     *)
(* The rejection loop and the modulo make every value of that interval a   *)
(* possible result; the model draws the value from the interval.           *)
(***************************************************************************)
getRandom(range) == 0 .. range

(***************************************************************************)
(* The tool engine.  A tool operator takes the tile map and the target and *)
(* gives the pair [map, result]; doParkTool draws random numbers and gives *)
(* the set of such pairs.                                                  *)
(***************************************************************************)
isRoadAt(m, x, y) ==
    /\ onMap(x, y)
    /\ getTileValue(getTile(m, x, y)) >= ROADBASE
    /\ getTileValue(getTile(m, x, y)) <= LASTROAD

isRailAt(m, x, y) ==
    /\ onMap(x, y)
    /\ getTileValue(getTile(m, x, y)) >= RAILBASE
    /\ getTileValue(getTile(m, x, y)) <= LASTRAIL

isPowerAt(m, x, y) ==
    /\ onMap(x, y)
    /\ \/ /\ getTileValue(getTile(m, x, y)) >= POWERBASE
          /\ getTileValue(getTile(m, x, y)) <= LASTPOWER
       \/ HasBit(getTile(m, x, y), CONDBIT)

\* the 16-entry tables of fixSingle, as offsets from ROADS / LHRAIL / LHPOWER
\* (ROADS2 = ROADS + 1, ..., INTERSECTION = ROADS + 10; likewise for rail and power)
connectTiles == <<0, 1, 0, 2, 1, 3, 4, 5, 0, 6, 1, 7, 8, 9, 4, 10>>

connectPattern(n, e, s, w) ==
    (IF n THEN 1 ELSE 0) + (IF e THEN 2 ELSE 0) + (IF s THEN 4 ELSE 0) + (IF w THEN 8 ELSE 0)

fixSingle(m, x, y) ==
    LET tileValue == getTileValue(getTile(m, x, y))
        roadPattern == connectPattern(isRoadAt(m, x, y - 1), isRoadAt(m, x + 1, y),
                                      isRoadAt(m, x, y + 1), isRoadAt(m, x - 1, y))
        railPattern == connectPattern(isRailAt(m, x, y - 1), isRailAt(m, x + 1, y),
                                      isRailAt(m, x, y + 1), isRailAt(m, x - 1, y))
        powerPattern == connectPattern(isPowerAt(m, x, y - 1), isPowerAt(m, x + 1, y),
                                       isPowerAt(m, x, y + 1), isPowerAt(m, x - 1, y))
    IN  IF tileValue >= ROADS /\ tileValue <= INTERSECTION
        THEN setTile(m, x, y, ROADS + connectTiles[roadPattern + 1] + BULLBIT + BURNBIT)
        ELSE IF tileValue >= LHRAIL /\ tileValue <= LVRAIL10
        THEN setTile(m, x, y, LHRAIL + connectTiles[railPattern + 1] + BULLBIT + BURNBIT)
        ELSE IF tileValue >= LHPOWER /\ tileValue <= LVPOWER10
        THEN setTile(m, x, y,
                     LHPOWER + connectTiles[powerPattern + 1] + BULLBIT + BURNBIT + CONDBIT)
        ELSE m

fixIfOnMap(m, x, y) == IF onMap(x, y) THEN fixSingle(m, x, y) ELSE m

\* fixZone as it would be if it fixed the cell itself and no neighbour
fixZoneCenterOnly(m, x, y) == fixSingle(m, x, y)

fixZone(m, x, y) ==
    fixSingle(fixIfOnMap(fixIfOnMap(fixIfOnMap(fixIfOnMap(m, x, y - 1),
                                               x + 1, y), x, y + 1), x - 1, y), x, y)

\* doBulldozer as it would be if it cleared the cell before testing BULLBIT
doBulldozerEager(m, x, y) ==
    LET tile == getTile(m, x, y)
        tileValue == getTileValue(tile)
    IN  IF tileValue >= WATER_LOW /\ tileValue <= WATER_HIGH
        THEN [map |-> m, result |-> "FAILED"]
        ELSE IF tileValue = DIRT
        THEN [map |-> m, result |-> "FAILED"]
        ELSE IF ~HasBit(tile, BULLBIT)
        THEN [map |-> setTile(m, x, y, DIRT), result |-> "NEED_BULLDOZE"]
        ELSE [map |-> setTile(m, x, y, DIRT), result |-> "OK"]

\* doBulldozer without the test of the BULLBIT flag
doBulldozerUnchecked(m, x, y) ==
    LET tile == getTile(m, x, y)
        tileValue == getTileValue(tile)
    IN  IF tileValue >= WATER_LOW /\ tileValue <= WATER_HIGH
        THEN [map |-> m, result |-> "FAILED"]
        ELSE IF tileValue = DIRT
        THEN [map |-> m, result |-> "FAILED"]
        ELSE [map |-> setTile(m, x, y, DIRT), result |-> "OK"]

\* doBulldozer clearing the tile character and keeping the flags
doBulldozerKeepsFlags(m, x, y) ==
    LET tile == getTile(m, x, y)
        tileValue == getTileValue(tile)
    IN  IF tileValue >= WATER_LOW /\ tileValue <= WATER_HIGH
        THEN [map |-> m, result |-> "FAILED"]
        ELSE IF tileValue = DIRT
        THEN [map |-> m, result |-> "FAILED"]
        ELSE IF ~HasBit(tile, BULLBIT)
        THEN [map |-> m, result |-> "NEED_BULLDOZE"]
        ELSE [map |-> setTile(m, x, y, tile - tileValue), result |-> "OK"]

doBulldozer(m, x, y) ==
    LET tile == getTile(m, x, y)
        tileValue == getTileValue(tile)
    IN  IF tileValue >= WATER_LOW /\ tileValue <= WATER_HIGH
        THEN [map |-> m, result |-> "FAILED"]
        ELSE IF tileValue = DIRT
        THEN [map |-> m, result |-> "FAILED"]
        ELSE IF ~HasBit(tile, BULLBIT)
        THEN [map |-> m, result |-> "NEED_BULLDOZE"]
        ELSE [map |-> setTile(m, x, y, DIRT), result |-> "OK"]

\* doRoadTool, doRailTool and doWireTool differ in the range that counts as
\* "already there" and in the tile they place
doLineTool(m, x, y, lo, hi, placed) ==
    LET tile == getTile(m, x, y)
        tileValue == getTileValue(tile)
    IN  IF tileValue >= lo /\ tileValue <= hi
        THEN [map |-> m, result |-> "FAILED"]
        ELSE IF tileValue # DIRT /\ ~HasBit(tile, BULLBIT)
        THEN [map |-> m, result |-> "NEED_BULLDOZE"]
        ELSE [map |-> fixZone(setTile(m, x, y, placed), x, y), result |-> "OK"]

doRoadTool(m, x, y) == doLineTool(m, x, y, ROADBASE, LASTROAD, ROADS + BULLBIT + BURNBIT)
doRailTool(m, x, y) == doLineTool(m, x, y, RAILBASE, LASTRAIL, LHRAIL + BULLBIT + BURNBIT)
doWireTool(m, x, y) ==
    doLineTool(m, x, y, POWERBASE, LASTPOWER, LHPOWER + BULLBIT + BURNBIT + CONDBIT)

doParkTool(m, x, y) ==
    LET tile == getTile(m, x, y)
        tileValue == getTileValue(tile)
    IN  IF tileValue # DIRT /\ ~HasBit(tile, BULLBIT)
        THEN {[map |-> m, result |-> "NEED_BULLDOZE"]}
        ELSE {[map |-> setTile(m, x, y,
                               (IF r1 = 0 THEN FOUNTAIN ELSE WOODS + r2) + BULLBIT + BURNBIT),
               result |-> "OK"] : r1 \in getRandom(4), r2 \in getRandom(4)}

\* zonePlop as it would be if it marked every cell of the zone as its center
zonePlopAllCenters(m, x, y, base) ==
    [c \in Cells |->
        IF Abs(c[1] - x) <= 1 /\ Abs(c[2] - y) <= 1
        THEN (base + (c[2] - y + 1) * 3 + (c[1] - x + 1) + ZONEBIT + BULLBIT) % WORDSIZE
        ELSE m[c]]

zonePlop(m, x, y, base) ==
    [c \in Cells |->
        IF Abs(c[1] - x) <= 1 /\ Abs(c[2] - y) <= 1
        THEN (base + (c[2] - y + 1) * 3 + (c[1] - x + 1)
              + (IF c = <<x, y>> THEN ZONEBIT + BULLBIT ELSE BULLBIT)) % WORDSIZE
        ELSE m[c]]

\* the cells a size x size area is checked in: dx is the outer loop, dy the inner
areaCells(x0, y0, size) ==
    [i \in 1 .. size * size |-> <<x0 + ((i - 1) \div size), y0 + ((i - 1) % size)>>]

\* the area check without the test of what the cells hold
checkAreaBounds(m, x0, y0, size) ==
    LET area == areaCells(x0, y0, size)
    IN  IF \A i \in DOMAIN area : onMap(area[i][1], area[i][2]) THEN "OK" ELSE "FAILED"

\* "Check area is clear" of doZoneTool and doBuildingTool: the first cell of
\* the area that is off the map or neither DIRT nor bulldozable decides
checkArea(m, x0, y0, size) ==
    LET area == areaCells(x0, y0, size)
        blocked(i) ==
            \/ ~onMap(area[i][1], area[i][2])
            \/ /\ getTileValue(m[area[i]]) # DIRT
               /\ ~HasBit(m[area[i]], BULLBIT)
        bad == {i \in DOMAIN area : blocked(i)}
    IN  IF bad = {} THEN "OK"
        ELSE IF ~onMap(area[Min(bad)][1], area[Min(bad)][2]) THEN "FAILED"
        ELSE "NEED_BULLDOZE"

doZoneTool(m, x, y, centerTile) ==
    LET check == checkArea(m, x - 1, y - 1, 3)
        cleared == [c \in Cells |->
                       IF Abs(c[1] - x) <= 1 /\ Abs(c[2] - y) <= 1 THEN DIRT ELSE m[c]]
    IN  IF check # "OK"
        THEN [map |-> m, result |-> check]
        ELSE [map |-> zonePlop(cleared, x, y, centerTile), result |-> "OK"]

doBuildingTool(m, x, y, baseTile, size) ==
    LET offset == size \div 2
        check == checkArea(m, x - offset, y - offset, size)
        inArea(c) ==
            /\ c[1] >= x - offset /\ c[1] < x - offset + size
            /\ c[2] >= y - offset /\ c[2] < y - offset + size
        tileOffset(c) == (c[2] - (y - offset)) * size + (c[1] - (x - offset))
    IN  IF check # "OK"
        THEN [map |-> m, result |-> check]
        ELSE [map |->
                [c \in Cells |->
                    IF inArea(c)
                    THEN (baseTile + tileOffset(c)
                          + (IF c = <<x, y>>
                             THEN ZONEBIT + CONDBIT + PWRBIT + BULLBIT
                             ELSE CONDBIT + BURNBIT)) % WORDSIZE
                    ELSE m[c]],
              result |-> "OK"]

\* the switch of doTool: the tool's own handler, on the tile map
toolSwitch(m, tool, x, y) ==
    CASE tool = "BULLDOZER" -> {doBulldozer(m, x, y)}
      [] tool = "ROAD" -> {doRoadTool(m, x, y)}
      [] tool = "RAILROAD" -> {doRailTool(m, x, y)}
      [] tool = "WIRE" -> {doWireTool(m, x, y)}
      [] tool = "PARK" -> doParkTool(m, x, y)
      [] tool = "RESIDENTIAL" -> {doZoneTool(m, x, y, FREEZ)}
      [] tool = "COMMERCIAL" -> {doZoneTool(m, x, y, COMCLR)}
      [] tool = "INDUSTRIAL" -> {doZoneTool(m, x, y, INDCLR)}
      [] tool = "FIRESTATION" -> {doBuildingTool(m, x, y, FIRESTBASE, 3)}
      [] tool = "POLICESTATION" -> {doBuildingTool(m, x, y, POLICESTBASE, 3)}
      [] tool = "STADIUM" -> {doBuildingTool(m, x, y, STADIUMBASE, 4)}
      [] tool = "SEAPORT" -> {doBuildingTool(m, x, y, PORTBASE, 4)}
      [] tool = "COALPOWER" -> {doBuildingTool(m, x, y, COALBASE, 4)}
      [] tool = "NUCLEARPOWER" -> {doBuildingTool(m, x, y, NUCLEARBASE, 4)}
      [] tool = "AIRPORT" -> {doBuildingTool(m, x, y, AIRPORTBASE, 6)}
      [] OTHER -> {[map |-> m, result |-> "FAILED"]}

\* spend as it would be if every purchase were free
spendNothing(s, amount) == s

spend(s, amount) == [s EXCEPT !.totalFunds = @ - amount]

invalidateMaps(s) == [s EXCEPT !.mapSerial = @ + 1]

\* doTool with the money test ahead of the bounds test
doToolMoneyFirst(s, tool, x, y) ==
    IF TOOL_COSTS[tool] > s.totalFunds
    THEN {[state |-> s, result |-> "NO_MONEY"]}
    ELSE IF ~onMap(x, y)
    THEN {[state |-> s, result |-> "FAILED"]}
    ELSE IF tool = "QUERY"
    THEN {[state |-> s, result |-> "OK"]}
    ELSE {[state |-> IF r.result = "OK"
                     THEN invalidateMaps(spend([s EXCEPT !.map = r.map], TOOL_COSTS[tool]))
                     ELSE [s EXCEPT !.map = r.map],
           result |-> r.result] : r \in toolSwitch(s.map, tool, x, y)}

\* doTool with QUERY leaving the switch by break, as the other tools do
doToolQueryBreaks(s, tool, x, y) ==
    IF ~onMap(x, y)
    THEN {[state |-> s, result |-> "FAILED"]}
    ELSE IF TOOL_COSTS[tool] > s.totalFunds
    THEN {[state |-> s, result |-> "NO_MONEY"]}
    ELSE IF tool = "QUERY"
    THEN {[state |-> invalidateMaps(spend(s, TOOL_COSTS[tool])), result |-> "OK"]}
    ELSE {[state |-> IF r.result = "OK"
                     THEN invalidateMaps(spend([s EXCEPT !.map = r.map], TOOL_COSTS[tool]))
                     ELSE [s EXCEPT !.map = r.map],
           result |-> r.result] : r \in toolSwitch(s.map, tool, x, y)}

\* doTool gives the set of pairs [state, result] the call can end in
doTool(s, tool, x, y) ==
    IF ~onMap(x, y)
    THEN {[state |-> s, result |-> "FAILED"]}
    ELSE IF TOOL_COSTS[tool] > s.totalFunds
    THEN {[state |-> s, result |-> "NO_MONEY"]}
    ELSE IF tool = "QUERY"
    THEN {[state |-> s, result |-> "OK"]}
    ELSE {[state |-> IF r.result = "OK"
                     THEN invalidateMaps(spend([s EXCEPT !.map = r.map], TOOL_COSTS[tool]))
                     ELSE [s EXCEPT !.map = r.map],
           result |-> r.result] : r \in toolSwitch(s.map, tool, x, y)}

(***************************************************************************)
(* Constants of core/constants (imported by the simulation).               *)
(***************************************************************************)
CITYTIMES_PER_MONTH == 4
CITYTIMES_PER_YEAR == 48
CENSUS_FREQUENCY_10 == 4
CENSUS_FREQUENCY_120 == 48
TAX_FREQUENCY == 48
MAX_ROAD_EFFECT == 32
MAX_POLICE_STATION_EFFECT == 1000
MAX_FIRE_STATION_EFFECT == 1000
RES_VALVE_RANGE == 2000
COM_VALVE_RANGE == 1500
IND_VALVE_RANGE == 1500
DEFAULT_STARTING_YEAR == 1900
DEFAULT_CITY_TAX == 7

(***************************************************************************)
(* GameMap (core/map.ts): an overlay of block size b has one cell per      *)
(* b x b block of world cells; reads outside it give the default 0 and     *)
(* writes outside it are dropped.                                          *)
(***************************************************************************)
ceilDiv(a, b) == (a + b - 1) \div b
BlockCells(b) == (0 .. ceilDiv(WORLD_W, b) - 1) \X (0 .. ceilDiv(WORLD_H, b) - 1)
ClearGameMap(b) == [c \in BlockCells(b) |-> 0]
get(g, x, y) == IF <<x, y>> \in DOMAIN g THEN g[<<x, y>>] ELSE 0
set(g, x, y, value) == IF <<x, y>> \in DOMAIN g THEN [g EXCEPT ![<<x, y>>] = value] ELSE g
worldGet(g, b, x, y) == IF onMap(x, y) THEN get(g, x \div b, y \div b) ELSE 0
worldSet(g, b, x, y, value) == IF onMap(x, y) THEN set(g, x \div b, y \div b, value) ELSE g

(***************************************************************************)
(* SimSpeed and GameLevel (core/types.ts).                                 *)
(***************************************************************************)
SimSpeed == {"PAUSED", "SLOW", "MEDIUM", "FAST"}
GameLevel == {"EASY", "MEDIUM", "HARD"}
levelNumber(level) == CASE level = "EASY" -> 0 [] level = "MEDIUM" -> 1 [] level = "HARD" -> 2

(***************************************************************************)
(* The Micropolis instance as its constructor leaves it (field             *)
(* initialisers, then init(): clearMaps, initFundingLevel, updateDate).    *)
(* Fields that only drive the display (histories and their maxima, the     *)
(* "changed" flags, message callbacks) and the scratch maps tempMap1..3,   *)
(* which every scan clears or overwrites before reading, are not part of   *)
(* the record.  powerStack holds the entries below powerStackPointer.      *)
(***************************************************************************)
Constructed ==
    [map |-> ClearTileMap,
     powerGridMap |-> ClearTileMap,
     populationDensityMap |-> ClearGameMap(2),
     trafficDensityMap |-> ClearGameMap(2),
     pollutionDensityMap |-> ClearGameMap(2),
     landValueMap |-> ClearGameMap(2),
     crimeRateMap |-> ClearGameMap(2),
     terrainDensityMap |-> ClearGameMap(4),
     rateOfGrowthMap |-> ClearGameMap(8),
     fireStationMap |-> ClearGameMap(8),
     fireStationEffectMap |-> ClearGameMap(8),
     policeStationMap |-> ClearGameMap(8),
     policeStationEffectMap |-> ClearGameMap(8),
     comRateMap |-> ClearGameMap(8),
     roadTotal |-> 0, railTotal |-> 0, firePop |-> 0,
     resPop |-> 0, comPop |-> 0, indPop |-> 0, totalPopLast |-> 0,
     resZonePop |-> 0, comZonePop |-> 0, indZonePop |-> 0,
     hospitalPop |-> 0, churchPop |-> 0, stadiumPop |-> 0,
     policeStationPop |-> 0, fireStationPop |-> 0,
     coalPowerPop |-> 0, nuclearPowerPop |-> 0, seaportPop |-> 0, airportPop |-> 0,
     crimeAverage |-> 0, pollutionAverage |-> 0, landValueAverage |-> 0,
     trafficAverage |-> 0,
     cityTime |-> 0, cityMonth |-> 0, cityYear |-> DEFAULT_STARTING_YEAR,
     totalFunds |-> 20000,
     taxFund |-> 0, roadFund |-> 0, policeFund |-> 0, fireFund |-> 0,
     roadSpend |-> 0, policeSpend |-> 0, fireSpend |-> 0,
     roadEffect |-> MAX_ROAD_EFFECT,
     policeEffect |-> MAX_POLICE_STATION_EFFECT,
     fireEffect |-> MAX_FIRE_STATION_EFFECT,
     cityTax |-> DEFAULT_CITY_TAX, cityTaxAverage |-> 0,
     resValve |-> 0, comValve |-> 0, indValve |-> 0,
     cityPop |-> 0, cityPopDelta |-> 0, cityAssessedValue |-> 0,
     cityClass |-> "VILLAGE", cityScore |-> 500, cityScoreDelta |-> 0,
     simSpeed |-> "MEDIUM", gameLevel |-> "EASY",
     enableDisasters |-> TRUE, autoBulldoze |-> TRUE,
     simCycle |-> 0, phaseCycle |-> 0, speedCycle |-> 0, mapSerial |-> 0,
     poweredZoneCount |-> 0, unpoweredZoneCount |-> 0,
     pollutionMaxX |-> 0, pollutionMaxY |-> 0, crimeMaxX |-> 0, crimeMaxY |-> 0,
     cashFlow |-> 0, floodCount |-> 0,
     powerStack |-> <<>>, sprites |-> <<>>,
     doInitialEval |-> TRUE]

clearMaps(s) ==
    [s EXCEPT !.map = ClearTileMap,
              !.populationDensityMap = ClearGameMap(2),
              !.trafficDensityMap = ClearGameMap(2),
              !.pollutionDensityMap = ClearGameMap(2),
              !.landValueMap = ClearGameMap(2),
              !.crimeRateMap = ClearGameMap(2),
              !.terrainDensityMap = ClearGameMap(4),
              !.powerGridMap = ClearTileMap,
              !.rateOfGrowthMap = ClearGameMap(8),
              !.fireStationMap = ClearGameMap(8),
              !.fireStationEffectMap = ClearGameMap(8),
              !.policeStationMap = ClearGameMap(8),
              !.policeStationEffectMap = ClearGameMap(8),
              !.comRateMap = ClearGameMap(8)]

clearCensus(s) ==
    [s EXCEPT !.poweredZoneCount = 0, !.unpoweredZoneCount = 0,
              !.firePop = 0, !.roadTotal = 0, !.railTotal = 0,
              !.resPop = 0, !.comPop = 0, !.indPop = 0,
              !.resZonePop = 0, !.comZonePop = 0, !.indZonePop = 0,
              !.hospitalPop = 0, !.churchPop = 0,
              !.policeStationPop = 0, !.fireStationPop = 0, !.stadiumPop = 0,
              !.coalPowerPop = 0, !.nuclearPowerPop = 0,
              !.seaportPop = 0, !.airportPop = 0,
              !.powerGridMap = ClearTileMap]

updateDate(s) ==
    [s EXCEPT !.cityMonth = (s.cityTime \div CITYTIMES_PER_MONTH) % 12,
              !.cityYear = DEFAULT_STARTING_YEAR + (s.cityTime \div CITYTIMES_PER_YEAR)]

(***************************************************************************)
(* Power scan.                                                             *)
(***************************************************************************)
powerStackCapacity == (WORLD_W * WORLD_H) \div 4

\* the cells in the order "for x ... for y ..." visits them
scanOrder == [i \in 1 .. WORLD_W * WORLD_H |-> <<(i - 1) \div WORLD_H, (i - 1) % WORLD_H>>]

\* the push as it would be without the test of the pointer
pushAlways(stack, pos) == Append(stack, pos)

pushPowerStack(stack, pos) ==
    IF Len(stack) < powerStackCapacity THEN Append(stack, pos) ELSE stack

RECURSIVE pushEach(_, _)
pushEach(stack, positions) ==
    IF positions = <<>> THEN stack
    ELSE pushEach(pushPowerStack(stack, Head(positions)), Tail(positions))

\* the four neighbours in the order of the directions array: N, E, S, W
directions(x, y) == <<(<<x, y - 1>>), (<<x + 1, y>>), (<<x, y + 1>>), (<<x - 1, y>>)>>

\* one pass of the while loop as it would be if it pushed every conducting
\* neighbour, powered or not
powerStepRevisits(m, grid, stack) ==
    LET pos == stack[Len(stack)]
        wanted(q) == onMap(q[1], q[2]) /\ HasBit(m[q], CONDBIT)
    IN  [grid |-> [grid EXCEPT ![pos] = 1],
         stack |-> pushEach(SubSeq(stack, 1, Len(stack) - 1),
                            SelectSeq(directions(pos[1], pos[2]), wanted))]

\* one pass of the while loop of doPowerScan, the stack not being empty:
\* pull a position, power it, push its unpowered conducting neighbours
powerStep(m, grid, stack) ==
    LET pos == stack[Len(stack)]
        pulled == SubSeq(stack, 1, Len(stack) - 1)
        powered == [grid EXCEPT ![pos] = 1]
        wanted(q) == /\ onMap(q[1], q[2])
                     /\ powered[q] = 0
                     /\ HasBit(m[q], CONDBIT)
    IN  [grid |-> powered,
         stack |-> pushEach(pulled, SelectSeq(directions(pos[1], pos[2]), wanted))]

\* "Propagate power": the while loop of doPowerScan
RECURSIVE propagatePower(_, _, _)
propagatePower(m, grid, stack) ==
    IF stack = <<>> THEN grid
    ELSE LET after == powerStep(m, grid, stack)
         IN  propagatePower(m, after.grid, after.stack)

isPowerSource(tile) ==
    getTileValue(tile) = NUCLEAR \/ getTileValue(tile) = POWERPLANT

\* the power scan as it would be if every conducting cell were powered
doPowerScanAllConductors(s) ==
    [s EXCEPT !.powerGridMap =
                 [c \in Cells |-> IF HasBit(s.map[c], CONDBIT) THEN 1 ELSE 0],
              !.powerStack = <<>>]

\* the power scan as it would be if it kept the grid and carried the power
\* one cell further on each call
doPowerScanSpreads(s) ==
    LET near(c) == \E d \in Cells : /\ Abs(c[1] - d[1]) + Abs(c[2] - d[2]) = 1
                                     /\ s.powerGridMap[d] = 1
    IN  [s EXCEPT !.powerGridMap =
                     [c \in Cells |->
                         IF \/ isPowerSource(s.map[c])
                            \/ s.powerGridMap[c] = 1
                            \/ HasBit(s.map[c], CONDBIT) /\ near(c)
                         THEN 1 ELSE 0],
                  !.powerStack = <<>>]

doPowerScan(s) ==
    LET plant(c) == isPowerSource(s.map[c])
        plants == pushEach(<<>>, SelectSeq(scanOrder, plant))
    IN  [s EXCEPT !.powerGridMap = propagatePower(s.map, ClearTileMap, plants),
                  !.powerStack = <<>>]

(***************************************************************************)
(* Zone engine: every operator takes the state and gives the set of states *)
(* the call can leave, one per outcome of the random draws it makes.       *)
(***************************************************************************)
randomFire == {FIRE + k + ANIMBIT : k \in 0 .. 7}
randomRubble == {RUBBLE + k + BULLBIT : k \in 0 .. 3}

setZonePower(s, x, y) ==
    IF worldGet(s.powerGridMap, 1, x, y) # 0
    THEN [s EXCEPT !.map = setTile(@, x, y, SetBit(getTile(s.map, x, y), PWRBIT))]
    ELSE [s EXCEPT !.map = setTile(@, x, y, ClearBit(getTile(s.map, x, y), PWRBIT))]

repairZone(m, x, y, base, size) ==
    LET offset == IF size = 3 THEN 1 ELSE IF size = 4 THEN 1 ELSE 2
        inArea(c) == /\ c[1] >= x - offset /\ c[1] < x - offset + size
                     /\ c[2] >= y - offset /\ c[2] < y - offset + size
        rubble(c) == getTileValue(m[c]) >= RUBBLE /\ getTileValue(m[c]) <= LASTRUBBLE
    IN  [c \in Cells |->
            IF inArea(c) /\ rubble(c)
            THEN (base + (c[2] - (y - offset)) * size + (c[1] - (x - offset))
                  + CONDBIT + BURNBIT) % WORDSIZE
            ELSE m[c]]

makeSprite(type, x, y, destX, destY, count, dir) ==
    [type |-> type, x |-> x, y |-> y, destX |-> destX, destY |-> destY,
     count |-> count, dir |-> dir]

doFire(s, x, y) ==
    LET counted == [s EXCEPT !.firePop = @ + 1]
        catches(q) == /\ onMap(q[1], q[2])
                      /\ HasBit(s.map[q], BURNBIT)
                      /\ \/ worldGet(s.fireStationEffectMap, 8, q[1], q[2]) < 50
                         \/ \E r \in getRandom(100) :
                               r > worldGet(s.fireStationEffectMap, 8, q[1], q[2])
        dirs == directions(x, y)
        spread == {s.map} \cup
                  {setTile(s.map, dirs[d + 1][1], dirs[d + 1][2], f) :
                      d \in {e \in getRandom(3) : catches(dirs[e + 1])}, f \in randomFire}
        burned == spread \cup {setTile(m, x, y, r) : m \in spread, r \in randomRubble}
    IN  {[counted EXCEPT !.map = m] : m \in burned}

doRoad(s, x, y, tile) ==
    LET tileValue == getTileValue(tile)
        counted == [s EXCEPT !.roadTotal =
                       @ + 1 + (IF tileValue >= HBRIDGE /\ tileValue <= VBRIDGE THEN 3 ELSE 0)
                         + (IF tileValue >= HTRFBASE THEN 1 ELSE 0)]
    IN  IF s.roadEffect < 30
        THEN {counted}
             \cup {[counted EXCEPT !.map = setTile(@, x, y, r)] : r \in randomRubble}
             \cup {[counted EXCEPT !.map = setTile(@, x, y, tileValue - 1)]}
        ELSE {counted}

generateTrain(s, x, y) ==
    [s EXCEPT !.sprites = Append(@, makeSprite("TRAIN", x * 16, y * 16, 0, 0, 25, 0))]

doRail(s, x, y) ==
    LET counted == [s EXCEPT !.railTotal = @ + 1]
    IN  {counted, generateTrain(counted, x, y)}

\* the 3x3 block around a zone center
footprint(x, y) == {c \in Cells : Abs(c[1] - x) <= 1 /\ Abs(c[2] - y) <= 1}

makeTraffic(m, x, y) ==
    IF \E c \in footprint(x, y) :
          getTileValue(m[c]) >= ROADBASE /\ getTileValue(m[c]) <= LASTROAD
    THEN getRandom(10)
    ELSE {-1}

incRateOfGrowth(s, x, y, amount) ==
    LET val == worldGet(s.rateOfGrowthMap, 8, x, y)
    IN  [s EXCEPT !.rateOfGrowthMap =
            worldSet(@, 8, x, y, Max({-200, Min({200, val + amount * 4})}))]

plopped(s, x, y, base) == [s EXCEPT !.map = zonePlop(@, x, y, base)]

resPlop(s, x, y, density) ==
    IF density = 0 THEN {plopped(s, x, y, FREEZ)}
    ELSE IF density < 4 THEN {plopped(s, x, y, HOUSE + r) : r \in getRandom(3)}
    ELSE {plopped(s, x, y, RZB - 1 + Min({density, 16}))}

doResIn(s, x, y, pop) ==
    IF pop < 40
    THEN UNION {{incRateOfGrowth(t, x, y, 1) : t \in resPlop(s, x, y, Min({pop + 1, r + 1}))} :
                   r \in getRandom(8)}
    ELSE {incRateOfGrowth(s, x, y, 1)}

doResOut(s, x, y, pop) ==
    IF pop > 0
    THEN {incRateOfGrowth(t, x, y, -1) : t \in resPlop(s, x, y, pop - 1)}
    ELSE {incRateOfGrowth(s, x, y, -1)}

\* evalRes, times 16 so that resValve / 16 stays an integer
evalRes16(s, x, y, traffic) ==
    IF traffic < 0 THEN -3000 * 16
    ELSE 16 * (worldGet(s.landValueMap, 2, x, y)
               - worldGet(s.pollutionDensityMap, 2, x, y)
               - (IF worldGet(s.crimeRateMap, 2, x, y) > 190 THEN 50 ELSE 0)
               - traffic)
         + s.resValve

resZonePopOf(tileValue) ==
    IF tileValue = FREEZ THEN {0}
    ELSE IF tileValue < HOUSE THEN getRandom(8)
    ELSE IF tileValue < RZB THEN {(tileValue - HOUSE) * 2}
    ELSE {((tileValue - RZB) \div 9) * 8 + 16}

\* what a zone processor does once the zone's population and traffic are known
zoneMove(s, value16, zonePower, in, out) ==
    LET value == IF ~zonePower THEN -500 ELSE value16
    IN  IF value > 0 THEN in ELSE IF value < 0 THEN out ELSE {s}

doResidential(s, x, y, zonePower) ==
    LET tileValue == getTileValue(getTile(s.map, x, y))
    IN  UNION {LET t == [s EXCEPT !.resZonePop = @ + 1, !.resPop = @ + zonePop]
               IN  UNION {IF traffic = -1
                          THEN doResOut(t, x, y, zonePop)
                          ELSE zoneMove(t, evalRes16(t, x, y, traffic), zonePower,
                                        doResIn(t, x, y, zonePop), doResOut(t, x, y, zonePop)) :
                             traffic \in makeTraffic(s.map, x, y)} :
                  zonePop \in resZonePopOf(tileValue)}

comPlop(s, x, y, density) ==
    IF density = 0 THEN plopped(s, x, y, COMCLR)
    ELSE plopped(s, x, y, CZB - 1 + density * 9)

doComIn(s, x, y, pop) ==
    incRateOfGrowth(IF pop < 5 THEN comPlop(s, x, y, pop + 1) ELSE s, x, y, 1)

\* the decline as it would be if it plopped the full zone (density 5)
doComOutPlopsFull(s, x, y, pop) ==
    incRateOfGrowth(comPlop(s, x, y, 5), x, y, -1)

doComOut(s, x, y, pop) ==
    incRateOfGrowth(IF pop > 0 THEN comPlop(s, x, y, pop - 1) ELSE s, x, y, -1)

evalCom16(s, x, y, traffic) ==
    IF traffic < 0 THEN -3000 * 16
    ELSE 16 * (worldGet(s.comRateMap, 8, x, y)
               + worldGet(s.landValueMap, 2, x, y)
               - worldGet(s.pollutionDensityMap, 2, x, y)
               - traffic)
         + s.comValve

comZonePopOf(tileValue) ==
    IF tileValue = COMCLR THEN 0 ELSE ((tileValue - CZB) \div 9) + 1

doCommercial(s, x, y, zonePower) ==
    LET zonePop == comZonePopOf(getTileValue(getTile(s.map, x, y)))
        t == [s EXCEPT !.comZonePop = @ + 1, !.comPop = @ + zonePop]
    IN  UNION {IF traffic = -1
               THEN {doComOut(t, x, y, zonePop)}
               ELSE zoneMove(t, evalCom16(t, x, y, traffic), zonePower,
                             {doComIn(t, x, y, zonePop)}, {doComOut(t, x, y, zonePop)}) :
                  traffic \in makeTraffic(s.map, x, y)}

indPlop(s, x, y, density) ==
    IF density = 0 THEN plopped(s, x, y, INDCLR)
    ELSE plopped(s, x, y, IZB - 1 + density * 9)

doIndIn(s, x, y, pop) ==
    incRateOfGrowth(IF pop < 4 THEN indPlop(s, x, y, pop + 1) ELSE s, x, y, 1)

doIndOut(s, x, y, pop) ==
    incRateOfGrowth(IF pop > 0 THEN indPlop(s, x, y, pop - 1) ELSE s, x, y, -1)

evalInd16(s, traffic) ==
    IF traffic < 0 THEN -1000 * 16 ELSE s.indValve - 16 * traffic

indZonePopOf(tileValue) ==
    IF tileValue = INDCLR THEN 0 ELSE ((tileValue - IZB) \div 9) + 1

doIndustrial(s, x, y, zonePower) ==
    LET zonePop == indZonePopOf(getTileValue(getTile(s.map, x, y)))
        t == [s EXCEPT !.indZonePop = @ + 1, !.indPop = @ + zonePop]
    IN  UNION {IF traffic = -1
               THEN {doIndOut(t, x, y, zonePop)}
               ELSE zoneMove(t, evalInd16(t, traffic), zonePower,
                             {doIndIn(t, x, y, zonePop)}, {doIndOut(t, x, y, zonePop)}) :
                  traffic \in makeTraffic(s.map, x, y)}

coalSmoke(s, x, y) ==
    LET frame == (s.cityTime \div 4) % 4
        smoke(base) == (base + frame + ANIMBIT + CONDBIT + PWRBIT + BURNBIT) % WORDSIZE
    IN  [s EXCEPT !.map =
            setTile(setTile(setTile(setTile(@, x + 1, y - 1, smoke(COALSMOKE1)),
                                    x + 2, y - 1, smoke(COALSMOKE2)),
                            x + 1, y, smoke(COALSMOKE3)),
                    x + 2, y, smoke(COALSMOKE4))]

\* every map that differs from m by giving each cell of `where` one tile of `tiles`
rewrites(m, where, tiles) ==
    {[c \in Cells |-> IF c \in where THEN f[c] ELSE m[c]] : f \in [where -> tiles]}

makeExplosion(s, x, y) ==
    LET hit == {c \in footprint(x, y) : HasBit(s.map[c], BULLBIT)}
    IN  {[s EXCEPT !.map = m,
                   !.sprites = Append(@, makeSprite("EXPLOSION", x * 16, y * 16,
                                                    x * 16, y * 16, 6, 0))] :
            m \in rewrites(s.map, hit, randomRubble)}

doMeltdown(s, x, y) ==
    LET near(r) == {c \in Cells : Abs(c[1] - x) <= r /\ Abs(c[2] - y) <= r}
        burning == {c \in near(2) : HasBit(s.map[c], BURNBIT) \/ getTileValue(s.map[c]) = DIRT}
        fires == rewrites(s.map, burning, randomFire)
        radiated == UNION {{[c \in Cells |-> IF c \in rad THEN RADTILE ELSE m[c]] :
                               rad \in SUBSET near(3)} : m \in fires}
    IN  UNION {makeExplosion([s EXCEPT !.map = m], x, y) : m \in radiated}

generateShip(s) ==
    LET water == {x \in 0 .. WORLD_W - 1 :
                     /\ getTileValue(getTile(s.map, x, 0)) >= WATER_LOW
                     /\ getTileValue(getTile(s.map, x, 0)) <= WATER_HIGH}
    IN  IF water = {} THEN s
        ELSE [s EXCEPT !.sprites =
                 Append(@, makeSprite("SHIP", Min(water) * 16, 0,
                                      WORLD_W * 8, WORLD_H * 8, 100, 0))]

generatePlane(s, x, y) ==
    [s EXCEPT !.sprites = Append(@, makeSprite("AIRPLANE", x * 16, y * 16,
                                               0, WORLD_H * 8, 200, 0))]

generateCopter(s, x, y) ==
    {[s EXCEPT !.sprites = Append(@, makeSprite("HELICOPTER", x * 16, y * 16,
                                                dx * 16, dy * 16, 150, 0))] :
        dx \in getRandom(WORLD_W - 1), dy \in getRandom(WORLD_H - 1)}

repaired(s, x, y, every, base, size) ==
    IF s.cityTime % every = 0
    THEN [s EXCEPT !.map = repairZone(@, x, y, base, size)]
    ELSE s

\* doZone after setZonePower and the powered / unpowered count
zoneKind(s, x, y, tileValue, zonePower) ==
    CASE tileValue = PORT ->
            LET t == repaired([s EXCEPT !.seaportPop = @ + 1], x, y, 16, PORTBASE, 4)
            IN  IF zonePower THEN {t, generateShip(t)} ELSE {t}
      [] tileValue = AIRPORT ->
            LET t == repaired([s EXCEPT !.airportPop = @ + 1], x, y, 8, AIRPORTBASE, 6)
            IN  IF zonePower
                THEN UNION {{u} \cup generateCopter(u, x, y) : u \in {t, generatePlane(t, x, y)}}
                ELSE {t}
      [] tileValue = POWERPLANT ->
            LET t == repaired([s EXCEPT !.coalPowerPop = @ + 1], x, y, 8, COALBASE, 4)
            IN  {coalSmoke([t EXCEPT !.powerStack = pushPowerStack(@, <<x, y>>)], x, y)}
      [] tileValue = NUCLEAR ->
            LET t == repaired([s EXCEPT !.nuclearPowerPop = @ + 1], x, y, 8, NUCLEARBASE, 4)
                u == [t EXCEPT !.powerStack = pushPowerStack(@, <<x, y>>)]
            IN  IF s.enableDisasters THEN {u} \cup doMeltdown(u, x, y) ELSE {u}
      [] tileValue = FIRESTATION ->
            LET t == repaired([s EXCEPT !.fireStationPop = @ + 1], x, y, 8, FIRESTBASE, 3)
                effect == IF zonePower THEN s.fireEffect ELSE s.fireEffect \div 2
            IN  {[t EXCEPT !.fireStationMap = worldSet(@, 8, x, y, effect)]}
      [] tileValue = POLICESTATION ->
            LET t == repaired([s EXCEPT !.policeStationPop = @ + 1], x, y, 8, POLICESTBASE, 3)
                effect == IF zonePower THEN s.policeEffect ELSE s.policeEffect \div 2
            IN  {[t EXCEPT !.policeStationMap = worldSet(@, 8, x, y, effect)]}
      [] tileValue = STADIUM \/ tileValue = FULLSTADIUM ->
            {repaired([s EXCEPT !.stadiumPop = @ + 1], x, y, 16, STADIUMBASE, 4)}
      [] tileValue = HOSPITAL ->
            {repaired([s EXCEPT !.hospitalPop = @ + 1], x, y, 16, HOSPITALBASE, 3)}
      [] tileValue = CHURCH \/ (tileValue >= CHURCH1 /\ tileValue <= CHURCH7) ->
            {repaired([s EXCEPT !.churchPop = @ + 1], x, y, 16, CHURCHBASE, 3)}
      [] OTHER ->
            IF tileValue < HOSPITAL THEN doResidential(s, x, y, zonePower)
            ELSE IF tileValue < INDBASE THEN doCommercial(s, x, y, zonePower)
            ELSE IF tileValue < PORTBASE THEN doIndustrial(s, x, y, zonePower)
            ELSE {s}

doZone(s, x, y, tile) ==
    LET zonePower == worldGet(s.powerGridMap, 1, x, y) # 0
        t == setZonePower(s, x, y)
        counted == IF zonePower
                   THEN [t EXCEPT !.poweredZoneCount = @ + 1]
                   ELSE [t EXCEPT !.unpoweredZoneCount = @ + 1]
    IN  zoneKind(counted, x, y, getTileValue(tile), zonePower)

\* the body of the two loops of mapScan, for one cell
scanCell(s, x, y) ==
    LET tile == getTile(s.map, x, y)
        tileValue == getTileValue(tile)
    IN  IF tileValue < FLOOD THEN {s}
        ELSE IF tileValue < ROADBASE THEN doFire(s, x, y)
        ELSE IF tileValue < POWERBASE THEN doRoad(s, x, y, tile)
        ELSE IF tileValue < RAILBASE THEN {s}
        ELSE IF tileValue < RESBASE THEN doRail(s, x, y)
        ELSE IF isZoneCenter(tile) THEN doZone(s, x, y, tile)
        ELSE {s}

RECURSIVE scanFrom(_, _, _)
scanFrom(states, i, last) ==
    IF i > last THEN states
    ELSE scanFrom(UNION {scanCell(t, scanOrder[i][1], scanOrder[i][2]) : t \in states},
                  i + 1, last)

\* mapScan(x1, x2): columns x1 .. x2 - 1, each from y = 0 to WORLD_H - 1
mapScan(s, x1, x2) == scanFrom({s}, x1 * WORLD_H + 1, x2 * WORLD_H)

(***************************************************************************)
(* Overlay scans.                                                          *)
(***************************************************************************)
\* the smoothing as it would be if the weights (4 + 1 + 1 + 1 + 1) were
\* divided by 4
smoothMapBy4(src) ==
    Table([c \in DOMAIN src |->
              (src[c] * 4 + get(src, c[1] - 1, c[2]) + get(src, c[1] + 1, c[2])
               + get(src, c[1], c[2] - 1) + get(src, c[1], c[2] + 1)) \div 4])

smoothMap(src) ==
    Table([c \in DOMAIN src |->
              (src[c] * 4 + get(src, c[1] - 1, c[2]) + get(src, c[1] + 1, c[2])
               + get(src, c[1], c[2] - 1) + get(src, c[1], c[2] + 1)) \div 8])

smoothMap8(src) == smoothMap(src)

SumOver(g) ==
    LET RECURSIVE sum(_)
        sum(S) == IF S = {} THEN 0
                  ELSE LET c == CHOOSE d \in S : TRUE IN g[c] + sum(S \ {c})
    IN  sum(DOMAIN g)

average(g) == IF Cardinality(DOMAIN g) > 0 THEN SumOver(g) \div Cardinality(DOMAIN g) ELSE 0

\* the population populationDensityScan reads off a zone center
densityPop(tileValue) ==
    IF tileValue < COMBASE THEN resZonePopOf(tileValue)
    ELSE IF tileValue < INDBASE THEN {comZonePopOf(tileValue) * 8}
    ELSE IF tileValue < PORTBASE THEN {indZonePopOf(tileValue) * 8}
    ELSE {0}

RECURSIVE densityFrom(_, _, _)
densityFrom(temps, m, i) ==
    IF i > WORLD_W * WORLD_H THEN temps
    ELSE LET c == scanOrder[i]
         IN  densityFrom(IF isZoneCenter(m[c])
                         THEN {worldSet(t, 2, c[1], c[2], Min({255, pop})) :
                                  t \in temps, pop \in densityPop(getTileValue(m[c]))}
                         ELSE temps,
                         m, i + 1)

populationDensityScan(s) ==
    {[s EXCEPT !.populationDensityMap = smoothMap(smoothMap(smoothMap(t)))] :
        t \in densityFrom({ClearGameMap(2)}, s.map, 1)}

pollutionAt(s, c) ==
    LET tile == getTileValue(s.map[c])
    IN  worldGet(s.trafficDensityMap, 2, c[1], c[2])
        + (IF tile >= IZB /\ tile < PORTBASE THEN 50 ELSE 0)
        + (IF tile = POWERPLANT THEN 100 ELSE 0)
        + (IF tile = AIRPORT THEN 50 ELSE 0)
        + (IF tile = PORT THEN 30 ELSE 0)
        + (IF tile >= FIRE /\ tile <= FIRE + 7 THEN 100 ELSE 0)

\* twice the Manhattan distance of world point (wx, wy) from the city center
\* (WORLD_W / 2, WORLD_H / 2), which need not be a whole cell
centerDistance2(wx, wy) == Abs(2 * wx - WORLD_W) + Abs(2 * wy - WORLD_H)

calculateLandValue(s) ==
    LET value(c) == 150 - (centerDistance2(c[1] * 2 + 1, c[2] * 2 + 1) \div 4)
                    - s.pollutionDensityMap[c]
                    - (s.crimeRateMap[c] \div 2)
                    + get(s.terrainDensityMap, c[1] \div 2, c[2] \div 2) * 2
        landValue == [c \in BlockCells(2) |-> Max({0, Min({255, value(c)})})]
    IN  [s EXCEPT !.landValueMap = landValue, !.landValueAverage = average(landValue)]

pollutionTerrainLandValueScan(s) ==
    LET \* the last world cell of a block, in scan order, leaves its value in the block
        lastOf(b) == <<Min({2 * b[1] + 1, WORLD_W - 1}), Min({2 * b[2] + 1, WORLD_H - 1})>>
        temp == [b \in BlockCells(2) |-> Min({255, pollutionAt(s, lastOf(b))})]
        maxPollution == Max({pollutionAt(s, c) : c \in Cells})
        first == Min({i \in DOMAIN scanOrder : pollutionAt(s, scanOrder[i]) = maxPollution})
        maxCell == IF maxPollution > 0 THEN scanOrder[first] ELSE <<0, 0>>
        pollution == smoothMap(smoothMap(temp))
    IN  calculateLandValue([s EXCEPT !.pollutionMaxX = maxCell[1],
                                     !.pollutionMaxY = maxCell[2],
                                     !.pollutionDensityMap = pollution,
                                     !.pollutionAverage = average(pollution)])

crimeScan(s) ==
    LET raw(c) == s.populationDensityMap[c] - (s.landValueMap[c] \div 4)
        police(c) == get(s.policeStationEffectMap, c[1] \div 4, c[2] \div 4)
        crime(c) == Max({0, Min({255, (raw(c) * (128 - Min({police(c), 127}))) \div 128})})
        order == [i \in 1 .. Cardinality(BlockCells(2)) |->
                     <<(i - 1) \div ceilDiv(WORLD_H, 2), (i - 1) % ceilDiv(WORLD_H, 2)>>]
        \* a cell moves the hotspot when its crime exceeds every earlier cell's
        records == {i \in DOMAIN order :
                       /\ crime(order[i]) > 0
                       /\ \A j \in 1 .. i - 1 : crime(order[j]) < crime(order[i])}
        smoothed == smoothMap([c \in BlockCells(2) |-> crime(c)])
    IN  [s EXCEPT !.crimeMaxX = IF records = {} THEN @ ELSE order[Max(records)][1] * 2,
                  !.crimeMaxY = IF records = {} THEN @ ELSE order[Max(records)][2] * 2,
                  !.crimeRateMap = smoothed,
                  !.crimeAverage = average(smoothed)]

computeComRateMap(s) ==
    [s EXCEPT !.comRateMap =
        [c \in BlockCells(8) |->
            Max({0, 64 - (centerDistance2(c[1] * 8 + 4, c[2] * 8 + 4) \div 8)})]]

fireAnalysis(s) ==
    LET fire1 == smoothMap8(s.fireStationMap)
        fire2 == smoothMap8(fire1)
        police1 == smoothMap8(s.policeStationMap)
        police2 == smoothMap8(police1)
    IN  computeComRateMap([s EXCEPT !.fireStationMap = fire2,
                                    !.fireStationEffectMap = smoothMap8(fire2),
                                    !.policeStationMap = police2,
                                    !.policeStationEffectMap = smoothMap8(police2)])

decRateOfGrowthMap(s) ==
    [s EXCEPT !.rateOfGrowthMap =
        [c \in DOMAIN @ |-> IF @[c] > 0 THEN @[c] - 1 ELSE IF @[c] < 0 THEN @[c] + 1 ELSE @[c]]]

decTrafficMap(s) ==
    [s EXCEPT !.trafficDensityMap =
        [c \in DOMAIN @ |-> IF @[c] > 0 THEN Max({0, @[c] - 24}) ELSE @[c]]]

(***************************************************************************)
(* Budget and evaluation.  The code computes the shares below in floating  *)
(* point: Math.floor((a / b) * k).  The quotient a / b is exact when it is *)
(* a dyadic fraction; otherwise it is rounded, and when a * k / b is a     *)
(* whole number n the rounded product can fall just short of n, so that    *)
(* the floor is n - 1 (floor(100 * (29 / 100)) is 28).  floorShare gives   *)
(* the values the expression can take.                                     *)
(***************************************************************************)
RECURSIVE gcd(_, _)
gcd(a, b) == IF b = 0 THEN a ELSE gcd(b, a % b)

RECURSIVE isPowerOfTwo(_)
isPowerOfTwo(n) == IF n = 1 THEN TRUE ELSE IF n % 2 = 1 THEN FALSE ELSE isPowerOfTwo(n \div 2)

isDyadic(a, b) == isPowerOfTwo(b \div gcd(a, b))

floorShare(a, b, k) ==
    IF a * k # 0 /\ (a * k) % b = 0 /\ ~isDyadic(a, b)
    THEN {((a * k) \div b) - 1, (a * k) \div b}
    ELSE {(a * k) \div b}

getPopulation(s) == (s.resPop \div 8) + s.comPop + s.indPop

\* Math.floor((population * landValueAverage / 120) * cityTaxAverage / 100)
taxFundOf(population, landValueAverage, cityTaxAverage) ==
    LET product == population * landValueAverage * cityTaxAverage
    IN  IF product # 0 /\ product % 12000 = 0 /\ ~isDyadic(population * landValueAverage, 120)
        THEN {(product \div 12000) - 1, product \div 12000}
        ELSE {product \div 12000}

\* collectTax as it would be if it settled the budget without touching the funds
settleTaxUnpaid(s, taxFund, roadFund, policeFund, fireFund, roadSpend, policeSpend, fireSpend) ==
    [s EXCEPT !.taxFund = taxFund,
              !.roadFund = roadFund, !.policeFund = policeFund, !.fireFund = fireFund,
              !.roadSpend = roadSpend, !.policeSpend = policeSpend,
              !.fireSpend = fireSpend,
              !.cashFlow = taxFund - roadSpend - policeSpend - fireSpend,
              !.cityTaxAverage = 0]

\* the assignments of collectTax, once the amounts are known
settleTax(s, taxFund, roadFund, policeFund, fireFund, roadSpend, policeSpend, fireSpend) ==
    [s EXCEPT !.taxFund = taxFund,
              !.roadFund = roadFund, !.policeFund = policeFund, !.fireFund = fireFund,
              !.roadSpend = roadSpend, !.policeSpend = policeSpend,
              !.fireSpend = fireSpend,
              !.cashFlow = taxFund - roadSpend - policeSpend - fireSpend,
              !.totalFunds = @ + (taxFund - roadSpend - policeSpend - fireSpend),
              !.cityTaxAverage = 0]

\* collectTax as it would be if it paid every budget in full whatever the funds
collectTaxInFull(s) ==
    LET roadFund == (s.roadTotal + s.railTotal * 2) * levelNumber(s.gameLevel)
        policeFund == s.policeStationPop * 100
        fireFund == s.fireStationPop * 100
    IN  {settleTax(s, taxFund, roadFund, policeFund, fireFund, roadFund, policeFund, fireFund) :
            taxFund \in taxFundOf(getPopulation(s), s.landValueAverage,
                                  s.cityTaxAverage \div TAX_FREQUENCY)}

collectTax(s) ==
    LET population == getPopulation(s)
        cityTaxAverage == s.cityTaxAverage \div TAX_FREQUENCY
        roadFund == (s.roadTotal + s.railTotal * 2) * levelNumber(s.gameLevel)
        policeFund == s.policeStationPop * 100
        fireFund == s.fireStationPop * 100
        total == roadFund + policeFund + fireFund
        settle(taxFund, roadSpend, policeSpend, fireSpend) ==
            settleTax(s, taxFund, roadFund, policeFund, fireFund,
                      roadSpend, policeSpend, fireSpend)
    IN  UNION {IF s.totalFunds + taxFund >= total
               THEN {settle(taxFund, roadFund, policeFund, fireFund)}
               ELSE {settle(taxFund, r, p, f) :
                        r \in floorShare(s.totalFunds + taxFund, total, roadFund),
                        p \in floorShare(s.totalFunds + taxFund, total, policeFund),
                        f \in floorShare(s.totalFunds + taxFund, total, fireFund)} :
                  taxFund \in taxFundOf(population, s.landValueAverage, cityTaxAverage)}

updateFundEffects(s) ==
    {[s EXCEPT !.roadEffect = r, !.policeEffect = p, !.fireEffect = f] :
        r \in IF s.roadFund > 0 THEN floorShare(s.roadSpend, s.roadFund, MAX_ROAD_EFFECT)
              ELSE {MAX_ROAD_EFFECT},
        p \in IF s.policeFund > 0
              THEN floorShare(s.policeSpend, s.policeFund, MAX_POLICE_STATION_EFFECT)
              ELSE {MAX_POLICE_STATION_EFFECT},
        f \in IF s.fireFund > 0
              THEN floorShare(s.fireSpend, s.fireFund, MAX_FIRE_STATION_EFFECT)
              ELSE {MAX_FIRE_STATION_EFFECT}}

getCityClass(pop) ==
    IF pop >= 500000 THEN "MEGALOPOLIS"
    ELSE IF pop >= 100000 THEN "METROPOLIS"
    ELSE IF pop >= 50000 THEN "CAPITAL"
    ELSE IF pop >= 10000 THEN "CITY"
    ELSE IF pop >= 2000 THEN "TOWN"
    ELSE "VILLAGE"

getAssessedValue(s) ==
    (s.roadTotal * 10 + s.railTotal * 15 + s.policeStationPop * 500
     + s.fireStationPop * 500 + s.hospitalPop * 400 + s.stadiumPop * 3000
     + s.seaportPop * 5000 + s.airportPop * 10000 + s.coalPowerPop * 3000
     + s.nuclearPowerPop * 6000) * 1000

cityEvaluation(s) ==
    LET cityPop == getPopulation(s)
        cityPopDelta == cityPop - s.totalPopLast
        growth == IF cityPopDelta > 0 THEN Min({100, cityPopDelta \div 100})
                  ELSE IF cityPopDelta < 0 THEN Max({-100, cityPopDelta \div 100})
                  ELSE 0
        employment == (s.comPop + s.indPop) * 8
        unemployment == IF s.resPop > 0
                        THEN IF s.resPop - employment > 0
                             THEN floorShare(s.resPop - employment, s.resPop, 100)
                             ELSE {0}
                        ELSE {0}
        zones == s.poweredZoneCount + s.unpoweredZoneCount
        unpowered == IF zones > 0 THEN floorShare(s.unpoweredZoneCount, zones, 100) ELSE {0}
        tax == IF s.cityTax > 10 THEN (s.cityTax - 10) * 5 ELSE 0
        base == 500 + growth - (s.crimeAverage \div 5) - (s.pollutionAverage \div 5)
                - tax - (s.trafficAverage \div 4)
    IN  {[s EXCEPT !.cityPop = cityPop,
                   !.cityPopDelta = cityPopDelta,
                   !.totalPopLast = cityPop,
                   !.cityClass = getCityClass(cityPop),
                   !.cityScoreDelta = (base - u - z) - s.cityScore,
                   !.cityScore = Max({0, Min({1000, base - u - z})}),
                   !.cityAssessedValue = getAssessedValue(s)] :
            u \in unemployment, z \in unpowered}

setValves(s) ==
    LET clamp(v, range) == Max({-range, Min({range, v})})
    IN  [s EXCEPT
           !.resValve = clamp((s.resPop - (s.comPop + s.indPop) * 8) \div 16, RES_VALVE_RANGE),
           !.comValve = clamp((s.resPop - s.comPop * 8) \div 32, COM_VALVE_RANGE),
           !.indValve = clamp(((s.resPop - s.indPop * 8) \div 32) + 4, IND_VALVE_RANGE)]

(***************************************************************************)
(* Disasters.                                                              *)
(***************************************************************************)
setFire(s) ==
    {IF HasBit(s.map[<<x, y>>], BURNBIT)
     THEN [s EXCEPT !.map = setTile(@, x, y, f)]
     ELSE s : x \in getRandom(WORLD_W - 1), y \in getRandom(WORLD_H - 1), f \in randomFire}

\* makeFlood tries 300 random cells and floods around the first water cell it
\* hits; it may also hit none
makeFlood(s) ==
    LET water == {c \in Cells : /\ getTileValue(s.map[c]) >= WATER_LOW
                                /\ getTileValue(s.map[c]) <= WATER_HIGH}
        flooded(c) == [d \in Cells |->
                          IF d \in footprint(c[1], c[2]) /\ HasBit(s.map[d], BULLBIT)
                          THEN FLOOD ELSE s.map[d]]
    IN  (IF water = Cells THEN {} ELSE {s})
        \cup {[s EXCEPT !.map = flooded(c), !.floodCount = 30] : c \in water}

makeAirCrash(s) ==
    LET planes == {i \in DOMAIN s.sprites :
                      s.sprites[i].type = "AIRPLANE" \/ s.sprites[i].type = "HELICOPTER"}
    IN  IF planes = {} THEN {s}
        ELSE makeExplosion(s, s.sprites[Min(planes)].x \div 16, s.sprites[Min(planes)].y \div 16)

makeTornado(s) ==
    {[s EXCEPT !.sprites = Append(@, makeSprite("TORNADO", x * 16, y * 16,
                                                dx * 16, dy * 16, 200, 0))] :
        x \in getRandom(WORLD_W - 1), y \in getRandom(WORLD_H - 1),
        dx \in getRandom(WORLD_W - 1), dy \in getRandom(WORLD_H - 1)}

\* makeEarthquake draws 300 .. 1000 cells, one after the other.  A drawn
\* bulldozable cell turns to rubble (3 in 4), which is bulldozable again, or,
\* if it can burn, to fire; so a cell ends as it was, as rubble, or, when it
\* could burn at the start, as fire.
makeEarthquake(s) ==
    LET shaken == {c \in Cells : HasBit(s.map[c], BULLBIT)}
        ends(c) == {s.map[c]} \cup randomRubble
                   \cup (IF HasBit(s.map[c], BURNBIT) THEN randomFire ELSE {})
    IN  {[s EXCEPT !.map = [c \in Cells |-> IF c \in shaken THEN f[c] ELSE s.map[c]]] :
            f \in {g \in [shaken -> UNION {ends(c) : c \in shaken}] :
                      \A c \in shaken : g[c] \in ends(c)}}

makeMonster(s) ==
    {[s EXCEPT !.sprites = Append(@, makeSprite("MONSTER", x * 16, y * 16,
                                                s.pollutionMaxX * 16, s.pollutionMaxY * 16,
                                                500, dir))] :
        x \in getRandom(WORLD_W - 1), y \in getRandom(WORLD_H - 1), dir \in getRandom(7)}

doDisasters(s) ==
    IF ~s.enableDisasters THEN {s}
    ELSE {s} \cup setFire(s) \cup makeFlood(s) \cup makeAirCrash(s) \cup makeTornado(s)
             \cup makeEarthquake(s) \cup makeMonster(s)

(***************************************************************************)
(* The scheduler.                                                          *)
(***************************************************************************)
\* the switch of simulate, for phase p
phaseBody(s, p) ==
    CASE p = 0 ->
            LET cycled == [s EXCEPT !.simCycle = (@ + 1) % 1024]
                evaluated == IF s.doInitialEval
                             THEN cityEvaluation([cycled EXCEPT !.doInitialEval = FALSE])
                             ELSE {cycled}
            IN  {LET timed == [t EXCEPT !.cityTime = @ + 1,
                                        !.cityTaxAverage = @ + t.cityTax]
                 IN  clearCensus(IF timed.simCycle % 2 = 0 THEN setValves(timed) ELSE timed) :
                    t \in evaluated}
      [] p \in 1 .. 8 ->
            mapScan(s, (p - 1) * (WORLD_W \div 8), p * (WORLD_W \div 8))
      [] p = 9 ->
            IF s.cityTime % TAX_FREQUENCY = 0
            THEN UNION {cityEvaluation(t) : t \in collectTax(s)}
            ELSE {s}
      [] p = 10 ->
            {decTrafficMap(IF s.simCycle % 5 = 0 THEN decRateOfGrowthMap(s) ELSE s)}
      [] p = 11 ->
            {IF s.simCycle % 9 = 0 THEN doPowerScan(s) ELSE s}
      [] p = 12 ->
            {IF s.simCycle % 17 = 0 THEN pollutionTerrainLandValueScan(s) ELSE s}
      [] p = 13 ->
            {IF s.simCycle % 19 = 0 THEN crimeScan(s) ELSE s}
      [] p = 14 ->
            IF s.simCycle % 19 = 0 THEN populationDensityScan(s) ELSE {s}
      [] p = 15 ->
            doDisasters(IF s.simCycle % 21 = 0 THEN fireAnalysis(s) ELSE s)

\* simulate as it would be if it ran the phase without moving on to the next
simulateInPlace(s) ==
    LET p == s.phaseCycle % 16
    IN  UNION {updateFundEffects(updateDate(t)) : t \in phaseBody(s, p)}

\* simulate as it would be if it set the valves from the running census at
\* the end of every step
simulateSetsValves(s) ==
    LET p == s.phaseCycle % 16
    IN  UNION {updateFundEffects(updateDate(setValves([t EXCEPT !.phaseCycle = p + 1]))) :
                  t \in phaseBody(s, p)}

simulate(s) ==
    LET p == s.phaseCycle % 16
    IN  UNION {updateFundEffects(updateDate([t EXCEPT !.phaseCycle = p + 1])) :
                  t \in phaseBody(s, p)}

\* simFrame as it would be if SLOW ran the step one call after every fifth
simFrameOffBeat(s) ==
    IF s.simSpeed = "PAUSED"
    THEN {[state |-> s, executed |-> FALSE]}
    ELSE LET cycled == [s EXCEPT !.speedCycle = (@ + 1) % 1024]
         IN  IF s.simSpeed = "SLOW" /\ cycled.speedCycle % 5 # 1
             THEN {[state |-> cycled, executed |-> FALSE]}
             ELSE IF s.simSpeed = "MEDIUM" /\ cycled.speedCycle % 3 # 0
             THEN {[state |-> cycled, executed |-> FALSE]}
             ELSE {[state |-> t, executed |-> TRUE] : t \in simulate(cycled)}

\* simFrame gives the set of records [state, executed]: the state the call
\* leaves and whether it ran a simulation step
simFrame(s) ==
    IF s.simSpeed = "PAUSED"
    THEN {[state |-> s, executed |-> FALSE]}
    ELSE LET cycled == [s EXCEPT !.speedCycle = (@ + 1) % 1024]
         IN  IF s.simSpeed = "SLOW" /\ cycled.speedCycle % 5 # 0
             THEN {[state |-> cycled, executed |-> FALSE]}
             ELSE IF s.simSpeed = "MEDIUM" /\ cycled.speedCycle % 3 # 0
             THEN {[state |-> cycled, executed |-> FALSE]}
             ELSE {[state |-> t, executed |-> TRUE] : t \in simulate(cycled)}

(***************************************************************************)
(* The rest of the public interface.                                       *)
(***************************************************************************)
\* a variant that stores the tax rate as given
setCityTaxAsGiven(s, tax) == [s EXCEPT !.cityTax = tax]

setCityTax(s, tax) == [s EXCEPT !.cityTax = Max({0, Min({20, tax})})]

setSpeed(s, speed) == [s EXCEPT !.simSpeed = speed]

setGameLevel(s, level) ==
    [s EXCEPT !.gameLevel = level,
              !.totalFunds = CASE level = "EASY" -> 20000
                               [] level = "MEDIUM" -> 10000
                               [] level = "HARD" -> 5000]

\* generateMap(seed) draws the terrain from the generator seeded with `seed`:
\* the same seed gives the same terrain.  The terrains are samples of what the
\* passes of generateMap leave: open land; water as smoothRiver leaves it, an
\* edge tile without flags (here a north-south bank along the east border,
\* land to its west: FIRSTRIVEDGE + 8 - 1) and, for water with land on all
\* four sides, RIVER (here a pond inland); a lone tree as treeSplash and
\* smoothTrees leave it, WOODS with BULLBIT and BURNBIT.
terrainOf(seed) ==
    IF seed % 2 = 1 THEN ClearTileMap
    ELSE [c \in Cells |->
             IF c[1] = WORLD_W - 1 THEN FIRSTRIVEDGE + 8 - 1
             ELSE IF c = <<1, 1>> THEN RIVER
             ELSE IF c = <<0, 3>> THEN WOODS + BULLBIT + BURNBIT
             ELSE DIRT]

generateMap(s, seed) == invalidateMaps([clearMaps(s) EXCEPT !.map = terrainOf(seed)])

newGame(s, seed) ==
    LET generated == generateMap(s, seed)
    IN  doPowerScan(clearCensus([generated EXCEPT !.cityTime = 0,
                                                  !.cityYear = DEFAULT_STARTING_YEAR,
                                                  !.cityMonth = 0,
                                                  !.totalFunds = 20000,
                                                  !.cityTax = DEFAULT_CITY_TAX,
                                                  !.cityScore = 500,
                                                  !.sprites = <<>>,
                                                  !.doInitialEval = TRUE]))

(***************************************************************************)
(* The record of the last call.  `skipped` counts the simFrame calls that  *)
(* ran no step since the last one that did, and `gap` is that count at the *)
(* call that ran the next step; both are -1 while not known (no step yet,  *)
(* or the speed was set in between).                                       *)
(***************************************************************************)
NoCall ==
    [kind |-> "none", tool |-> "NONE", x |-> 0, y |-> 0, result |-> "NONE",
     phase |-> -1, executed |-> FALSE, skipped |-> -1, gap |-> -1,
     block |-> 0, value |-> -1, draws |-> <<>>, used |-> 0]

\* the value of `twin` where a single instance runs
NoTwin == <<>>

toolCall(tool, x, y, result) ==
    [op EXCEPT !.kind = "tool", !.tool = tool, !.x = x, !.y = y, !.result = result,
               !.phase = -1, !.executed = FALSE, !.gap = -1]

frameCall(s, executed) ==
    [op EXCEPT !.kind = "frame", !.tool = "NONE", !.x = 0, !.y = 0, !.result = "NONE",
               !.phase = IF executed THEN s.phaseCycle % 16 ELSE -1,
               !.executed = executed,
               !.skipped = IF executed THEN 0 ELSE IF @ >= 0 THEN @ + 1 ELSE -1,
               !.gap = IF executed THEN op.skipped ELSE -1]

(***************************************************************************)
(* Spec: the tool engine.  A game is started on a generated terrain at a   *)
(* chosen difficulty, then tools are applied.                              *)
(***************************************************************************)
OffMapTargets == {<<-1, 0>>, <<0, -1>>, <<WORLD_W, 0>>, <<0, WORLD_H>>}

\* the tools are aimed at the rows 0 .. MaxToolRow of the map, where the
\* terrain has its pond, bank and tree, and beyond each edge of the map
ToolTargets == {c \in Cells : c[2] <= MaxToolRow} \cup OffMapTargets

\* the tools the model applies: every tool doTool handles, and of those its
\* switch has no case for, NETWORK (which has a cost) and WATER (which has none)
ToolPalette == EditingTool \ {"LAND", "FOREST", "COUNT"}

\* the games the model starts: the even seeds are played at HARD, the odd at EASY
levelOfGame(seed) == IF seed % 2 = 0 THEN "HARD" ELSE "EASY"

Started(seed) == setGameLevel(newGame(Constructed, seed), levelOfGame(seed))

Init ==
    /\ sim \in {Started(seed) : seed \in 0 .. MaxSeed}
    /\ twin = NoTwin
    /\ op = NoCall
    /\ calls = 0
    /\ frames = 0
    /\ lastScan = sim.powerGridMap

Tool(tool, x, y) ==
    /\ calls < MaxToolCalls
    /\ \E r \in doTool(sim, tool, x, y) :
          /\ sim' = r.state
          /\ op' = toolCall(tool, x, y, r.result)
    /\ calls' = calls + 1
    /\ UNCHANGED <<twin, frames, lastScan>>

Next == \E tool \in ToolPalette, c \in ToolTargets : Tool(tool, c[1], c[2])

Spec == Init /\ [][Next]_vars

(***************************************************************************)
(* SpecLines: roads, rails and wires.  On the terrain of the started game  *)
(* the line tools, the bulldozer and a zone tool work on a block of six    *)
(* cells, three calls deep: a line is laid, joined, and cut again.         *)
(***************************************************************************)
\* a doTool call, of at most `limit` calls
ToolWithin(limit, tool, x, y) ==
    /\ calls < limit
    /\ \E r \in doTool(sim, tool, x, y) :
          /\ sim' = r.state
          /\ op' = toolCall(tool, x, y, r.result)
    /\ calls' = calls + 1
    /\ UNCHANGED <<twin, frames, lastScan>>

LineTools == {"ROAD", "RAILROAD", "WIRE", "BULLDOZER", "RESIDENTIAL"}
LineTargets == {<<x, y>> : x \in 2 .. 4, y \in 1 .. 2}

NextLines ==
    \E tool \in LineTools, c \in LineTargets : ToolWithin(MaxLineCalls, tool, c[1], c[2])

SpecLines == Init /\ [][NextLines]_vars

(***************************************************************************)
(* SpecRaze: a zone is built and torn down.  The first call builds with    *)
(* one of the 3x3 tools on a fixed site of the started game, the bulldozer *)
(* works on the nine cells of the site, ten calls deep: one to build, nine *)
(* to clear.                                                               *)
(***************************************************************************)
RazeTools == {"RESIDENTIAL", "COMMERCIAL", "INDUSTRIAL", "POLICESTATION", "FIRESTATION"}
RazeSite == <<4, 1>>

NextRaze ==
    \/ \E tool \in RazeTools : ToolWithin(1, tool, RazeSite[1], RazeSite[2])
    \/ \E c \in footprint(RazeSite[1], RazeSite[2]) :
          ToolWithin(MaxRazeCalls, "BULLDOZER", c[1], c[2])

SpecRaze == Init /\ [][NextRaze]_vars

(***************************************************************************)
(* SpecPlan: a plant, a wire and a road.  On the open terrain of seed 1,   *)
(* played at EASY (20000 in funds), a coal plant is built at (2,2), a wire *)
(* four cells east of its center at (6,2), and three road cells south of   *)
(* the wire at (6,4), (6,5), (6,6), in any order, five calls deep.         *)
(***************************************************************************)
InitPlan ==
    /\ sim = Started(1)
    /\ twin = NoTwin
    /\ op = NoCall
    /\ calls = 0
    /\ frames = 0
    /\ lastScan = sim.powerGridMap

PlanCalls ==
    {<<"COALPOWER", 2, 2>>, <<"WIRE", 6, 2>>,
     <<"ROAD", 6, 4>>, <<"ROAD", 6, 5>>, <<"ROAD", 6, 6>>}

NextPlan == \E t \in PlanCalls : ToolWithin(MaxPlanCalls, t[1], t[2], t[3])

SpecPlan == InitPlan /\ [][NextPlan]_vars

(***************************************************************************)
(* SpecSim: a running city.  The game runs at FAST with random disasters   *)
(* switched off (the options checkbox) on the open terrain of seed 1, and  *)
(* is taken up at the end of its 143rd pass: pass 144 is the first that    *)
(* both collects the tax (city_time % 48 = 0) and scans the power grid     *)
(* (sim_cycle % 9 = 0).  From there frames run and tools are applied.      *)
(***************************************************************************)
\* the states n calls of simFrame can leave
RECURSIVE runFrames(_, _)
runFrames(s, n) ==
    IF n = 0 THEN {s}
    ELSE IF n = 1 THEN {Table(r.state) : r \in simFrame(s)}
    ELSE UNION {runFrames(t, n - (n \div 2)) : t \in runFrames(s, n \div 2)}

QuietGame(seed) ==
    [setSpeed(newGame(Constructed, seed), "FAST") EXCEPT !.enableDisasters = FALSE]

QuietPasses == (9 * 16) - 1

InitSim ==
    /\ sim \in runFrames(QuietGame(1), QuietPasses * 16)
    /\ twin = NoTwin
    /\ op = NoCall
    /\ calls = 0
    /\ frames = 0
    /\ lastScan = doPowerScan(sim).powerGridMap

\* one call of simFrame; lastScan follows the power scan of phase 11
Frame ==
    /\ frames < MaxFrames
    /\ \E r \in simFrame(sim) :
          /\ Len(r.state.sprites) <= MaxSprites
          /\ sim' = r.state
          /\ op' = frameCall(sim, r.executed)
          /\ lastScan' = IF r.executed /\ sim.phaseCycle % 16 = 11 /\ sim.simCycle % 9 = 0
                         THEN r.state.powerGridMap
                         ELSE lastScan
    /\ frames' = frames + 1
    /\ UNCHANGED <<twin, calls>>

\* the tools the running city is built with: a coal plant, next to it a police
\* station or a residential zone, a commercial zone that overlaps that site,
\* and the bulldozer on a corner and on the center of the site
SimTools ==
    {<<"COALPOWER", 2, 2>>, <<"POLICESTATION", 5, 1>>, <<"RESIDENTIAL", 5, 1>>,
     <<"COMMERCIAL", 6, 2>>, <<"BULLDOZER", 4, 0>>, <<"BULLDOZER", 5, 1>>}

NextSim == Frame \/ \E t \in SimTools : Tool(t[1], t[2], t[3])

SpecSim == InitSim /\ [][NextSim]_vars

(***************************************************************************)
(* SpecSched: the speed throttle.  The quiet game is taken up twelve calls *)
(* of simFrame before speedCycle comes back to 0; from there simFrame is   *)
(* called and the speed is set.                                            *)
(***************************************************************************)
InitSched ==
    /\ sim \in runFrames(QuietGame(1), 1024 - 12)
    /\ twin = NoTwin
    /\ op = NoCall
    /\ calls = 0
    /\ frames = 0
    /\ lastScan = doPowerScan(sim).powerGridMap

speedCall == [NoCall EXCEPT !.kind = "speed"]

SetSpeed(speed) ==
    /\ sim' = setSpeed(sim, speed)
    /\ op' = speedCall
    /\ UNCHANGED <<twin, calls, frames, lastScan>>

NextSched == Frame \/ \E speed \in SimSpeed : SetSpeed(speed)

SpecSched == InitSched /\ [][NextSched]_vars

(***************************************************************************)
(* SpecDet: two instances.  Both are constructed with random disasters     *)
(* switched off.  The first is used for a while (simFrame calls, speed     *)
(* selections) while the second is left as constructed; then newGame is    *)
(* called on both with one seed, and from there both get the same calls.   *)
(* The model draws each random number afresh, so the calls the two get in  *)
(* common are those that draw none (one outcome each).                     *)
(***************************************************************************)
InitDet ==
    /\ sim = [Constructed EXCEPT !.enableDisasters = FALSE]
    /\ twin = [Constructed EXCEPT !.enableDisasters = FALSE]
    /\ op = NoCall
    /\ calls = 0
    /\ frames = 0
    /\ lastScan = sim.powerGridMap

earlierCall == [NoCall EXCEPT !.kind = "earlier"]

newGameCall == [NoCall EXCEPT !.kind = "newGame"]

beforeNewGame == op.kind \in {"none", "earlier"}

EarlierFrame ==
    /\ beforeNewGame
    /\ calls < MaxEarlier
    /\ \E r \in simFrame(sim) : sim' = r.state
    /\ op' = earlierCall
    /\ calls' = calls + 1
    /\ UNCHANGED <<twin, frames, lastScan>>

EarlierSpeed(speed) ==
    /\ beforeNewGame
    /\ sim' = setSpeed(sim, speed)
    /\ op' = earlierCall
    /\ UNCHANGED <<twin, calls, frames, lastScan>>

NewGameBoth(seed) ==
    /\ beforeNewGame
    /\ sim' = newGame(sim, seed)
    /\ twin' = newGame(twin, seed)
    /\ op' = newGameCall
    /\ calls' = 0
    /\ UNCHANGED <<frames, lastScan>>

FrameBoth ==
    /\ ~beforeNewGame
    /\ frames < MaxDetFrames
    /\ Cardinality(simFrame(sim)) = 1
    /\ Cardinality(simFrame(twin)) = 1
    /\ \E r \in simFrame(sim), q \in simFrame(twin) :
          /\ sim' = r.state
          /\ twin' = q.state
          /\ op' = frameCall(sim, r.executed)
    /\ frames' = frames + 1
    /\ UNCHANGED <<calls, lastScan>>

ToolBoth(tool, x, y) ==
    /\ ~beforeNewGame
    /\ calls < MaxToolCalls
    /\ Cardinality(doTool(sim, tool, x, y)) = 1
    /\ Cardinality(doTool(twin, tool, x, y)) = 1
    /\ \E r \in doTool(sim, tool, x, y), q \in doTool(twin, tool, x, y) :
          /\ sim' = r.state
          /\ twin' = q.state
          /\ op' = toolCall(tool, x, y, r.result)
    /\ calls' = calls + 1
    /\ UNCHANGED <<frames, lastScan>>

SpeedBoth(speed) ==
    /\ ~beforeNewGame
    /\ sim' = setSpeed(sim, speed)
    /\ twin' = setSpeed(twin, speed)
    /\ op' = speedCall
    /\ UNCHANGED <<calls, frames, lastScan>>

\* the tools the two instances are given: the police station and the bulldozer
DetTools == {<<"POLICESTATION", 5, 1>>, <<"BULLDOZER", 4, 0>>}

NextDet ==
    \/ EarlierFrame
    \/ \E speed \in SimSpeed : EarlierSpeed(speed)
    \/ \E seed \in 0 .. MaxSeed : NewGameBoth(seed)
    \/ FrameBoth
    \/ \E t \in DetTools : ToolBoth(t[1], t[2], t[3])
    \/ \E speed \in SimSpeed : SpeedBoth(speed)

SpecDet == InitDet /\ [][NextDet]_vars

(***************************************************************************)
(* SpecCity: a city in use.  The quiet game is taken up at the end of its  *)
(* 142nd pass: pass 143 takes the census the valves of pass 144 are set    *)
(* from, and pass 144 collects the tax.  From there frames run, zones are  *)
(* placed, the tax slider is moved (to any integer, the slider's range is  *)
(* not the method's) and a new game is started.                            *)
(***************************************************************************)
CityPasses == (9 * 16) - 2

InitCity ==
    /\ sim \in runFrames(QuietGame(1), CityPasses * 16)
    /\ twin = NoTwin
    /\ op = NoCall
    /\ calls = 0
    /\ frames = 0
    /\ lastScan = doPowerScan(sim).powerGridMap

taxCall == [NoCall EXCEPT !.kind = "tax"]

\* the rates the tax is set to: below, inside and above the range
TaxRates == {-3, 9, 25}

SetCityTax(tax) ==
    /\ calls < MaxToolCalls
    /\ sim' = setCityTax(sim, tax)
    /\ op' = taxCall
    /\ calls' = calls + 1
    /\ UNCHANGED <<twin, frames, lastScan>>

NewGame(seed) ==
    /\ calls < MaxToolCalls
    /\ sim' = newGame(sim, seed)
    /\ op' = newGameCall
    /\ calls' = calls + 1
    /\ lastScan' = sim'.powerGridMap
    /\ UNCHANGED <<twin, frames>>

\* two residential zones side by side, and below them an industrial and a
\* commercial zone
CityTools ==
    {<<"RESIDENTIAL", 1, 1>>, <<"RESIDENTIAL", 5, 1>>, <<"INDUSTRIAL", 2, 4>>,
     <<"COMMERCIAL", 5, 4>>}

NextCity ==
    \/ Frame
    \/ \E t \in CityTools : Tool(t[1], t[2], t[3])
    \/ \E tax \in TaxRates : SetCityTax(tax)
    \/ \E seed \in 0 .. MaxSeed : NewGame(seed)

SpecCity == InitCity /\ [][NextCity]_vars

(***************************************************************************)
(* SpecPower: the power scan on its own.  On the open terrain of seed 1 a  *)
(* coal plant is built at (2,2) and wire is laid over the first cells of   *)
(* the rest of the map, column by column; from there the scan is run (as   *)
(* phase 11 and newGame run it), and between scans a cell is wired or      *)
(* bulldozed.                                                              *)
(***************************************************************************)
\* the cells outside the plant's footprint, in the order of scanOrder
wireCells ==
    LET free(c) == c[1] > 3 \/ c[2] > 3
    IN  SelectSeq(scanOrder, free)

RECURSIVE wired(_, _)
wired(s, n) ==
    IF n = 0 THEN {s}
    ELSE UNION {{r.state : r \in doTool(t, "WIRE", wireCells[n][1], wireCells[n][2])} :
                   t \in wired(s, n - 1)}

InitPower ==
    /\ sim \in UNION {wired(r.state, n) :
                        r \in doTool(Started(1), "COALPOWER", 2, 2),
                        n \in 0 .. Min({MaxWires, Len(wireCells)})}
    /\ twin = NoTwin
    /\ op = NoCall
    /\ calls = 0
    /\ frames = 0
    /\ lastScan = sim.powerGridMap

scanCall == [NoCall EXCEPT !.kind = "scan"]

\* one call of doPowerScan; frames counts the scans and lastScan keeps the grid
PowerScan ==
    /\ frames < MaxScans
    /\ sim' = doPowerScan(sim)
    /\ op' = scanCall
    /\ frames' = frames + 1
    /\ lastScan' = sim'.powerGridMap
    /\ UNCHANGED <<twin, calls>>

\* a wire away from the plant, and the bulldozer on the plant and on a wire
PowerTools == {<<"WIRE", 6, 5>>, <<"BULLDOZER", 1, 1>>, <<"BULLDOZER", 4, 1>>}

NextPower == PowerScan \/ \E t \in PowerTools : Tool(t[1], t[2], t[3])

SpecPower == InitPower /\ [][NextPower]_vars

(***************************************************************************)
(* SpecSmooth: the smoothing pass on its own.  A 2-block overlay (here     *)
(* pollutionDensityMap, the last destination of the pollution scan) holds  *)
(* a flat level or a level with one block that stands out, and smoothMap   *)
(* is applied to it, pass after pass.                                      *)
(***************************************************************************)
OverlayLevels == {0, 1, 100, 255}

sampleOverlays ==
    {[c \in BlockCells(2) |-> IF c = d THEN v ELSE u] :
        d \in BlockCells(2), u \in OverlayLevels, v \in OverlayLevels}

InitSmooth ==
    /\ sim \in {[Constructed EXCEPT !.pollutionDensityMap = g] : g \in sampleOverlays}
    /\ twin = NoTwin
    /\ op = NoCall
    /\ calls = 0
    /\ frames = 0
    /\ lastScan = sim.powerGridMap

smoothCall == [NoCall EXCEPT !.kind = "smooth"]

\* one call of smoothMap; frames counts the passes
Smooth ==
    /\ frames < MaxScans
    /\ sim' = [sim EXCEPT !.pollutionDensityMap = smoothMap(@)]
    /\ op' = smoothCall
    /\ frames' = frames + 1
    /\ UNCHANGED <<twin, calls, lastScan>>

SpecSmooth == InitSmooth /\ [][Smooth]_vars

(***************************************************************************)
(* SpecGrid: the grid storage on its own.  On the started game of Spec the *)
(* tile map and two overlays (landValueMap, 2-blocks, and                  *)
(* terrainDensityMap, 4-blocks) are written through setTile and worldSet,  *)
(* in two corners of the map and one step beyond them.                     *)
(***************************************************************************)
GridTargets ==
    {<<0, 0>>, <<1, 1>>, <<WORLD_W - 1, WORLD_H - 1>>,
     <<-1, 0>>, <<1, -1>>, <<WORLD_W, WORLD_H - 1>>, <<WORLD_W - 1, WORLD_H>>}

\* the values written: cells are 16-bit words, overlay values bytes
TileValues == {ROADS + BULLBIT, WORDSIZE - 1}
OverlayValues == {7, 200}

SetTile(x, y, value) ==
    /\ calls < MaxToolCalls
    /\ sim' = [sim EXCEPT !.map = setTile(@, x, y, value)]
    /\ op' = [NoCall EXCEPT !.kind = "setTile", !.x = x, !.y = y, !.value = value]
    /\ calls' = calls + 1
    /\ UNCHANGED <<twin, frames, lastScan>>

WorldSet(b, x, y, value) ==
    /\ calls < MaxToolCalls
    /\ sim' = IF b = 2
              THEN [sim EXCEPT !.landValueMap = worldSet(@, 2, x, y, value)]
              ELSE [sim EXCEPT !.terrainDensityMap = worldSet(@, 4, x, y, value)]
    /\ op' = [NoCall EXCEPT !.kind = "worldSet", !.x = x, !.y = y,
                            !.block = b, !.value = value]
    /\ calls' = calls + 1
    /\ UNCHANGED <<twin, frames, lastScan>>

NextGrid ==
    \/ \E c \in GridTargets, v \in TileValues : SetTile(c[1], c[2], v)
    \/ \E b \in {2, 4}, c \in GridTargets, v \in OverlayValues : WorldSet(b, c[1], c[2], v)

SpecGrid == Init /\ [][NextGrid]_vars

(***************************************************************************)
(* SpecTax: the first tax collection of a game.  A quiet game is played    *)
(* for some passes (none, or twenty), newGame is called, the tax rate is   *)
(* set once, and the new game runs up to phase 9 of its 48th pass.  The    *)
(* 8 x 7 map cannot grow the census of a city, so the figures collectTax   *)
(* reads (resPop, comPop, indPop, landValueAverage) are entered there from *)
(* samples of what the map scan and the land value scan leave on a full    *)
(* map.  From there frames run: the first is the tax collection.           *)
(***************************************************************************)
EarlierPasses == {0, 20}

TaxChoices == {0, 7, 10}

\* <<resPop, comPop, indPop, landValueAverage>>
CensusSamples ==
    {<<0, 0, 0, 0>>, <<16, 1, 0, 100>>, <<801, 100, 116, 200>>, <<2400, 200, 100, 120>>}

taxEve(earlier, tax) ==
    UNION {runFrames(setCityTax(newGame(t, 1), tax), ((TAX_FREQUENCY - 1) * 16) + 9) :
              t \in runFrames(QuietGame(1), earlier * 16)}

InitTax ==
    /\ sim \in {[t EXCEPT !.resPop = c[1], !.comPop = c[2], !.indPop = c[3],
                          !.landValueAverage = c[4]] :
                    t \in UNION {taxEve(e, tax) : e \in EarlierPasses, tax \in TaxChoices},
                    c \in CensusSamples}
    /\ twin = NoTwin
    /\ op = NoCall
    /\ calls = 0
    /\ frames = 0
    /\ lastScan = doPowerScan(sim).powerGridMap

SpecTax == InitTax /\ [][Frame]_vars

(***************************************************************************)
(* SpecCensus: the census of the special buildings.  At the end of pass    *)
(* 143 of the quiet game one or two buildings are placed with the tools;   *)
(* from there frames run (phase 0 clears the census, phases 1 .. 8 scan    *)
(* the map) and nothing else touches the map.                              *)
(***************************************************************************)
BuildPlans ==
    {<<>>,
     <<(<<"FIRESTATION", 1, 1>>)>>,
     <<(<<"POLICESTATION", 1, 1>>)>>,
     <<(<<"FIRESTATION", 1, 1>>), (<<"POLICESTATION", 5, 1>>)>>,
     <<(<<"FIRESTATION", 1, 1>>), (<<"FIRESTATION", 5, 1>>)>>,
     <<(<<"COALPOWER", 2, 2>>)>>,
     <<(<<"NUCLEARPOWER", 2, 2>>)>>,
     <<(<<"COALPOWER", 2, 2>>), (<<"NUCLEARPOWER", 6, 2>>)>>,
     <<(<<"STADIUM", 2, 2>>)>>,
     <<(<<"SEAPORT", 2, 2>>)>>,
     <<(<<"AIRPORT", 3, 3>>)>>}

RECURSIVE built(_, _)
built(s, plan) ==
    IF plan = <<>> THEN {s}
    ELSE UNION {built(r.state, Tail(plan)) :
                   r \in doTool(s, Head(plan)[1], Head(plan)[2], Head(plan)[3])}

InitCensus ==
    /\ sim \in UNION {built(t, plan) :
                        t \in runFrames(QuietGame(1), QuietPasses * 16),
                        plan \in BuildPlans}
    /\ twin = NoTwin
    /\ op = NoCall
    /\ calls = 0
    /\ frames = 0
    /\ lastScan = doPowerScan(sim).powerGridMap

SpecCensus == InitCensus /\ [][Frame]_vars

(***************************************************************************)
(* SpecPollution: the pollution scan on its own.  On the open terrain of   *)
(* seed 1 buildings are placed so that the polluting tile (POWERPLANT,     *)
(* PORT) falls on each of the four cells of a 2x2 block, fires are set on  *)
(* building cells, and pollutionTerrainLandValueScan is applied.           *)
(***************************************************************************)
pollutionCall == [NoCall EXCEPT !.kind = "pollution"]

\* one call of pollutionTerrainLandValueScan; frames counts the scans
PollutionScan ==
    /\ frames < MaxScans
    /\ sim' = pollutionTerrainLandValueScan(sim)
    /\ op' = pollutionCall
    /\ frames' = frames + 1
    /\ UNCHANGED <<twin, calls, lastScan>>

\* the cells on which setFire's draw may fall, and the fire tile it draws
FireCells == {<<0, 0>>, <<1, 0>>, <<1, 1>>, <<2, 1>>}
fireCall == [NoCall EXCEPT !.kind = "fire"]

\* one call of setFire whose draw falls on one of FireCells
SetFire ==
    /\ calls < MaxToolCalls
    /\ \E t \in setFire(sim) :
          /\ \A c \in Cells \ FireCells : t.map[c] = sim.map[c]
          /\ \A c \in FireCells : t.map[c] \in {sim.map[c], FIRE + ANIMBIT}
          /\ sim' = t
    /\ op' = fireCall
    /\ calls' = calls + 1
    /\ UNCHANGED <<twin, frames, lastScan>>

\* coal plants whose POWERPLANT tile falls on (1,1), (2,1), (2,2) and (5,4),
\* a seaport whose PORT tile falls on (4,1), and the bulldozer
PollutionTools ==
    {<<"COALPOWER", 2, 2>>, <<"COALPOWER", 3, 2>>, <<"COALPOWER", 3, 3>>,
     <<"COALPOWER", 6, 5>>, <<"SEAPORT", 5, 2>>, <<"BULLDOZER", 1, 1>>}

NextPollution ==
    PollutionScan \/ SetFire \/ \E t \in PollutionTools : Tool(t[1], t[2], t[3])

InitPollution ==
    /\ sim = Started(1)
    /\ twin = NoTwin
    /\ op = NoCall
    /\ calls = 0
    /\ frames = 0
    /\ lastScan = sim.powerGridMap

SpecPollution == InitPollution /\ [][NextPollution]_vars

(***************************************************************************)
(* SpecSprites: the quiet city of SpecCity with rails laid in it; the map  *)
(* scan may start a train on each rail cell it passes.                     *)
(***************************************************************************)
SpriteTools == {<<"RAILROAD", 1, 1>>, <<"RAILROAD", 5, 3>>, <<"BULLDOZER", 1, 1>>}

NextSprites == Frame \/ \E t \in SpriteTools : Tool(t[1], t[2], t[3])

SpecSprites == InitCity /\ [][NextSprites]_vars

(***************************************************************************)
(* SpecFunds: a HARD game in which a police station, a fire station and a  *)
(* coal plant have been bought (1000 left), taken to the start of the pass *)
(* that collects the tax for the first, the fifth or the sixth time (each  *)
(* collection pays 200 for the two stations); from there simFrame, tools,  *)
(* setCityTax and setGameLevel are called.                                 *)
(***************************************************************************)
FundsPlan ==
    <<(<<"POLICESTATION", 1, 1>>), (<<"FIRESTATION", 5, 1>>), (<<"COALPOWER", 2, 5>>)>>

TaxEves == {1, 5, 6}

InitFunds ==
    /\ sim \in UNION {UNION {runFrames(t, ((k * TAX_FREQUENCY) - 1) * 16) :
                                t \in built(setGameLevel(QuietGame(1), "HARD"), FundsPlan)} :
                         k \in TaxEves}
    /\ twin = NoTwin
    /\ op = NoCall
    /\ calls = 0
    /\ frames = 0
    /\ lastScan = doPowerScan(sim).powerGridMap

levelCall == [NoCall EXCEPT !.kind = "level"]

SetGameLevel(level) ==
    /\ calls < MaxToolCalls
    /\ sim' = setGameLevel(sim, level)
    /\ op' = levelCall
    /\ calls' = calls + 1
    /\ UNCHANGED <<twin, frames, lastScan>>

\* a road and the bulldozer on a free cell, and buildings on the free site
FundsTools ==
    {<<"ROAD", 3, 0>>, <<"BULLDOZER", 3, 0>>, <<"POLICESTATION", 5, 4>>,
     <<"NUCLEARPOWER", 6, 5>>}

NextFunds ==
    \/ Frame
    \/ \E t \in FundsTools : Tool(t[1], t[2], t[3])
    \/ \E tax \in TaxRates : SetCityTax(tax)
    \/ \E level \in GameLevel : SetGameLevel(level)

SpecFunds == InitFunds /\ [][NextFunds]_vars

(***************************************************************************)
(* SpecLoop: the while loop of doPowerScan, pass by pass.  The maps are    *)
(* those of SpecPower (a coal plant and a growing run of wires); the scan  *)
(* has cleared the grid and pushed the plants, and each step is one pass   *)
(* of the loop, which the scan runs for as long as the stack is not empty. *)
(***************************************************************************)
InitLoop ==
    /\ sim \in {[t EXCEPT !.powerGridMap = ClearTileMap,
                          !.powerStack = pushEach(<<>>, SelectSeq(scanOrder,
                                             LAMBDA c : isPowerSource(t.map[c])))] :
                   t \in UNION {wired(r.state, n) :
                                   r \in doTool(Started(1), "COALPOWER", 2, 2),
                                   n \in 0 .. Min({MaxWires, Len(wireCells)})}}
    /\ twin = NoTwin
    /\ op = NoCall
    /\ calls = 0
    /\ frames = 0
    /\ lastScan = ClearTileMap

pullCall(pos) == [NoCall EXCEPT !.kind = "pull", !.x = pos[1], !.y = pos[2]]

\* one pass of the loop; calls counts, up to MaxToolCalls, the passes that
\* pulled a position which was powered already
PullStep ==
    /\ sim.powerStack # <<>>
    /\ LET pos == sim.powerStack[Len(sim.powerStack)]
           after == powerStep(sim.map, sim.powerGridMap, sim.powerStack)
       IN  /\ sim' = [sim EXCEPT !.powerGridMap = after.grid, !.powerStack = after.stack]
           /\ op' = pullCall(pos)
           /\ calls' = IF sim.powerGridMap[pos] = 1 /\ calls < MaxToolCalls
                       THEN calls + 1 ELSE calls
    /\ lastScan' = sim.powerGridMap
    /\ UNCHANGED <<twin, frames>>

SpecLoop == InitLoop /\ [][PullStep]_vars /\ WF_vars(PullStep)

(***************************************************************************)
(* SpecFlood: a quiet game on the terrain with water (seed 0: the east     *)
(* bank and the pond at (1,1)); roads, wires and a zone are laid beside    *)
(* the water, makeFlood is called as the disaster menu calls it, and       *)
(* simFrame runs the map scan over the flooded cells.                      *)
(***************************************************************************)
InitFlood ==
    /\ sim = QuietGame(0)
    /\ twin = NoTwin
    /\ op = NoCall
    /\ calls = 0
    /\ frames = 0
    /\ lastScan = sim.powerGridMap

floodCall == [NoCall EXCEPT !.kind = "flood"]

MakeFlood ==
    /\ calls < MaxToolCalls
    /\ sim' \in makeFlood(sim)
    /\ op' = floodCall
    /\ calls' = calls + 1
    /\ UNCHANGED <<twin, frames, lastScan>>

FloodTools == {<<"ROAD", 2, 1>>, <<"WIRE", 6, 3>>, <<"RESIDENTIAL", 5, 5>>}

NextFlood == Frame \/ MakeFlood \/ \E t \in FloodTools : Tool(t[1], t[2], t[3])

SpecFlood == InitFlood /\ [][NextFlood]_vars

(***************************************************************************)
(* Random.getRandom as a loop over the 16-bit values getRandom16 hands it.  *)
(* draws is the sequence of values the generator would return, in order.   *)
(* The loop takes one value per pass and repeats while the value is at or  *)
(* above maxMultiple; the result is the value modulo range + 1.  When the  *)
(* sequence is used up with every value rejected the call has not returned *)
(* yet: returned is FALSE and used is the number of values rejected.       *)
(***************************************************************************)
maxMultiple(range) == (65535 \div (range + 1)) * (range + 1)

RECURSIVE getRandomFrom(_, _, _)
getRandomFrom(range, draws, i) ==
    IF i > Len(draws)
    THEN [returned |-> FALSE, value |-> -1, used |-> Len(draws)]
    ELSE IF draws[i] >= maxMultiple(range)
         THEN getRandomFrom(range, draws, i + 1)
         ELSE [returned |-> TRUE, value |-> draws[i] % (range + 1), used |-> i]

getRandomOn(range, draws) == getRandomFrom(range, draws, 1)

(***************************************************************************)
(* The generator on its own: every call takes a range and the sequence of  *)
(* 16-bit values the generator produces during the call.  The ranges are   *)
(* the small ones the simulation asks for, powers of two minus one, and    *)
(* the two largest; the values are the ends of the 16-bit interval, the    *)
(* largest value getRandom16 reaches with its 31-bit seed, and small ones. *)
(***************************************************************************)
MaxDraws == 2

RngRanges == {0, 1, 3, 6, 255, 32767, 65534, 65535}

DrawSamples == {0, 5, 32767, 65531, 65534, 65535}

DrawSeqs == UNION {[1 .. n -> DrawSamples] : n \in 1 .. MaxDraws}

rngCall(range, draws) ==
    LET r == getRandomOn(range, draws)
    IN  [NoCall EXCEPT !.kind = "random", !.x = range, !.draws = draws,
                       !.executed = r.returned, !.value = r.value,
                       !.used = r.used]

GetRandom(range, draws) ==
    /\ op' = rngCall(range, draws)
    /\ UNCHANGED <<sim, twin, calls, frames, lastScan>>

NextRng == \E range \in RngRanges, draws \in DrawSeqs : GetRandom(range, draws)

SpecRng == Init /\ [][NextRng]_vars

(***************************************************************************)
(* AssetLoader.  In SpecAssets the variable sim holds the loader singleton: *)
(* modelCache and loadingPromises as the class keeps them (0 for a path    *)
(* without an entry, otherwise the number of the load that made the entry),*)
(* loads, the doLoadModel calls in the order they were started, and        *)
(* callers, the loadModel calls in the order they were made.  A load is    *)
(* "inflight" from the call of loadGLTF until the GLTF loader calls back,  *)
(* then "model" or "null", the value its promise is resolved with.  A      *)
(* caller records the promise it waits for (0 when it was served from the  *)
(* cache), whether it started that load, the load of its path that was in  *)
(* flight when it called, and what it received: pending while it waits,    *)
(* then null or the cached model, named by the load that cached it.        *)
(***************************************************************************)
MaxLoads == 3

MaxModelCalls == 4

ALL_MODEL_PATHS == <<"house.glb", "tower.glb", "house.glb">>

ModelPaths == {ALL_MODEL_PATHS[i] : i \in 1 .. Len(ALL_MODEL_PATHS)}

NoLoader ==
    [modelCache |-> [p \in ModelPaths |-> 0],
     loadingPromises |-> [p \in ModelPaths |-> 0],
     loads |-> <<>>,
     callers |-> <<>>]

pending == [value |-> "pending", load |-> 0]

null == [value |-> "null", load |-> 0]

modelOf(id) == [value |-> "model", load |-> id]

inFlightOf(l, path) ==
    LET ids == {i \in 1 .. Len(l.loads) :
                    l.loads[i].path = path /\ l.loads[i].state = "inflight"}
    IN  IF ids = {} THEN 0 ELSE CHOOSE i \in ids : \A j \in ids : j <= i

caller(l, path, promise, starter, received) ==
    [path |-> path, promise |-> promise, starter |-> starter,
     overlapped |-> inFlightOf(l, path), received |-> received]

loadModelAlways(l, path) ==
    LET id == Len(l.loads) + 1
    IN  [l EXCEPT !.loads = Append(@, [path |-> path, state |-> "inflight"]),
                  !.loadingPromises[path] = id,
                  !.callers = Append(@, caller(l, path, id, TRUE, pending))]

loadModel(l, path) ==
    IF l.modelCache[path] # 0
    THEN [l EXCEPT !.callers = Append(@, caller(l, path, 0, FALSE,
                                                modelOf(l.modelCache[path])))]
    ELSE IF l.loadingPromises[path] # 0
    THEN [l EXCEPT !.callers = Append(@, caller(l, path, l.loadingPromises[path],
                                                FALSE, pending))]
    ELSE LET id == Len(l.loads) + 1
         IN  [l EXCEPT !.loads = Append(@, [path |-> path, state |-> "inflight"]),
                       !.loadingPromises[path] = id,
                       !.callers = Append(@, caller(l, path, id, TRUE, pending))]

RECURSIVE preloadFrom(_, _)
preloadFrom(l, i) ==
    IF i > Len(ALL_MODEL_PATHS) THEN l
    ELSE preloadFrom(loadModel(l, ALL_MODEL_PATHS[i]), i + 1)

preloadAll(l) == preloadFrom(l, 1)

doLoadModel(l, id, loaded) ==
    IF loaded
    THEN [l EXCEPT !.loads[id].state = "model",
                   !.modelCache[l.loads[id].path] = id]
    ELSE [l EXCEPT !.loads[id].state = "null"]

resolved(l, id) ==
    IF l.loads[id].state = "model" THEN modelOf(id) ELSE null

resume(l, c) ==
    LET call == l.callers[c]
        woken == [l EXCEPT !.callers[c].received = resolved(l, call.promise)]
    IN  IF call.starter
        THEN [woken EXCEPT !.loadingPromises[call.path] = 0]
        ELSE woken

withinLoaderBounds(l) ==
    /\ Len(l.loads) <= MaxLoads
    /\ Len(l.callers) <= MaxModelCalls

loaderCall(kind, path, n) ==
    [NoCall EXCEPT !.kind = kind, !.tool = path, !.x = n]

LoadModel(path) ==
    /\ withinLoaderBounds(loadModel(sim, path))
    /\ sim' = loadModel(sim, path)
    /\ op' = loaderCall("loadModel", path, Len(sim'.callers))
    /\ UNCHANGED <<twin, calls, frames, lastScan>>

PreloadAll ==
    /\ withinLoaderBounds(preloadAll(sim))
    /\ sim' = preloadAll(sim)
    /\ op' = loaderCall("preloadAll", "", Len(sim'.callers))
    /\ UNCHANGED <<twin, calls, frames, lastScan>>

GltfLoaded(id, loaded) ==
    /\ id \in 1 .. Len(sim.loads)
    /\ sim.loads[id].state = "inflight"
    /\ sim' = doLoadModel(sim, id, loaded)
    /\ op' = loaderCall(IF loaded THEN "onLoad" ELSE "onError", sim.loads[id].path, id)
    /\ UNCHANGED <<twin, calls, frames, lastScan>>

Resume(c) ==
    /\ c \in 1 .. Len(sim.callers)
    /\ sim.callers[c].received = pending
    /\ sim.loads[sim.callers[c].promise].state # "inflight"
    /\ sim' = resume(sim, c)
    /\ op' = loaderCall("resume", sim.callers[c].path, c)
    /\ UNCHANGED <<twin, calls, frames, lastScan>>

InitAssets ==
    /\ sim = NoLoader
    /\ twin = NoTwin
    /\ op = NoCall
    /\ calls = 0
    /\ frames = 0
    /\ lastScan = ClearTileMap

NextAssets ==
    \/ PreloadAll
    \/ \E path \in ModelPaths : LoadModel(path)
    \/ \E id \in 1 .. MaxLoads + 1, loaded \in BOOLEAN : GltfLoaded(id, loaded)
    \/ \E c \in 1 .. MaxModelCalls + 1 : Resume(c)

SpecAssets == InitAssets /\ [][NextAssets]_vars

(***************************************************************************)
(* SpecStack: the power stack between and during scans.  A quiet game has  *)
(* a coal plant at (2,2) and a run of wires as in SpecPower.  simFrame     *)
(* runs the phases, the map scan with its zone processing and the power    *)
(* scan of phase 11 among them, and tools edit the map.  The power scan is *)
(* also taken apart: beginScan is doPowerScan up to its loop (grid         *)
(* cleared, pointer reset, plants pushed) and each pass of the loop is one *)
(* step, so that the stack is seen after every push and pull.  A scan that *)
(* has begun runs to its end before anything else is called.               *)
(***************************************************************************)
StackWires == {0, 16, MaxWires}

InitStack ==
    /\ sim \in UNION {wired(r.state, Min({n, Len(wireCells)})) :
                        r \in doTool(QuietGame(1), "COALPOWER", 2, 2),
                        n \in StackWires}
    /\ twin = NoTwin
    /\ op = NoCall
    /\ calls = 0
    /\ frames = 0
    /\ lastScan = sim.powerGridMap

\* inside the loop of doPowerScan
midScan == op.kind \in {"begin", "pull"} /\ sim.powerStack # <<>>

beginScan(s) ==
    LET plant(c) == isPowerSource(s.map[c])
    IN  [s EXCEPT !.powerGridMap = ClearTileMap,
                  !.powerStack = pushEach(<<>>, SelectSeq(scanOrder, plant))]

BeginScan ==
    /\ ~midScan
    /\ sim' = beginScan(sim)
    /\ op' = [NoCall EXCEPT !.kind = "begin"]
    /\ UNCHANGED <<twin, calls, frames, lastScan>>

LoopPass == midScan /\ PullStep

StackTools == {<<"NUCLEARPOWER", 6, 4>>, <<"WIRE", 4, 0>>, <<"BULLDOZER", 1, 1>>}

NextStack ==
    \/ BeginScan
    \/ LoopPass
    \/ ~midScan /\ Frame
    \/ ~midScan /\ \E t \in StackTools : Tool(t[1], t[2], t[3])

SpecStack == InitStack /\ [][NextStack]_vars

(***************************************************************************)
(* Claims about the tool engine.                                           *)
(***************************************************************************)
\* a step of the model that is one doTool call
ToolStep == calls' = calls + 1

\* the tool costs as the specification lists them
ListedCost ==
    [RESIDENTIAL |-> 100, COMMERCIAL |-> 100, INDUSTRIAL |-> 100, ROAD |-> 10,
     RAILROAD |-> 20, WIRE |-> 5, PARK |-> 10, BULLDOZER |-> 1,
     POLICESTATION |-> 500, FIRESTATION |-> 500, STADIUM |-> 5000, SEAPORT |-> 3000,
     COALPOWER |-> 3000, NUCLEARPOWER |-> 5000, AIRPORT |-> 10000]

\* C1: for every tool of the cost list and every target on the map, doTool
\* answers NO_MONEY whenever the tool's cost exceeds total_funds, and when it
\* answers OK total_funds has gone down by exactly the cost and map_serial has
\* gone up by exactly one.
C1_CostAndSerial ==
    [][(ToolStep /\ op'.tool \in DOMAIN ListedCost /\ onMap(op'.x, op'.y))
       => /\ ListedCost[op'.tool] > sim.totalFunds => op'.result = "NO_MONEY"
          /\ op'.result = "OK" =>
                /\ sim'.totalFunds = sim.totalFunds - ListedCost[op'.tool]
                /\ sim'.mapSerial = sim.mapSerial + 1]_vars

\* C1 witness: a tool was refused for lack of money after an earlier tool was
\* paid for (the serial moved past the one the new game left).
C1_Witness ==
    /\ op.kind = "tool" /\ op.result = "NO_MONEY" /\ onMap(op.x, op.y)
    /\ sim.mapSerial = 2
    /\ sim.totalFunds < 5000

\* C2: a doTool call that answers FAILED, NEED_BULLDOZE or NO_MONEY leaves
\* every map cell, total_funds and map_serial as they were before the call.
C2_RefusalChangesNothing ==
    [][(ToolStep /\ op'.result \in {"FAILED", "NEED_BULLDOZE", "NO_MONEY"})
       => /\ sim'.map = sim.map
          /\ sim'.totalFunds = sim.totalFunds
          /\ sim'.mapSerial = sim.mapSerial]_vars

\* C2 witness: the bulldozer was refused with NEED_BULLDOZE on a cell of a
\* structure an earlier tool had built.
C2_Witness ==
    /\ op.kind = "tool" /\ op.tool = "BULLDOZER" /\ op.result = "NEED_BULLDOZE"
    /\ sim.mapSerial = 2
    /\ getTileValue(getTile(sim.map, op.x, op.y)) >= RESBASE

\* the cell a tool call aims at, and the word it held before the call
target == <<op'.x, op'.y>>
struck == sim.map[target]

\* a bulldozer call on a map cell that the player can pay
BulldozerStep ==
    /\ ToolStep /\ op'.tool = "BULLDOZER"
    /\ onMap(op'.x, op'.y)
    /\ sim.totalFunds >= ListedCost.BULLDOZER

isListedWater(tile) == getTileValue(tile) >= 2 /\ getTileValue(tile) <= 20

\* C12: with sufficient funds and a target on the map, BULLDOZER answers OK
\* exactly when the target cell is not water (2..20), is not DIRT and has
\* BULLDOZABLE set; it answers FAILED on water and on DIRT and NEED_BULLDOZE
\* on any other cell without BULLDOZABLE; on OK the target cell becomes DIRT
\* with no flags and no other map cell changes.
C12_BulldozerVerdict ==
    [][BulldozerStep
       => /\ op'.result = "OK"
                <=> /\ ~isListedWater(struck)
                    /\ getTileValue(struck) # DIRT
                    /\ HasBit(struck, BULLBIT)
          /\ isListedWater(struck) \/ getTileValue(struck) = DIRT
                => op'.result = "FAILED"
          /\ (~isListedWater(struck) /\ getTileValue(struck) # DIRT
                /\ ~HasBit(struck, BULLBIT))
                => op'.result = "NEED_BULLDOZE"
          /\ op'.result = "OK" => sim'.map = [sim.map EXCEPT ![target] = 0]]_vars

\* C12 witness: the bulldozer answered OK on a cell an earlier tool had built
\* on (two tools were paid for) and the cell is bare DIRT.
C12_Witness ==
    /\ op.kind = "tool" /\ op.tool = "BULLDOZER" /\ op.result = "OK"
    /\ sim.mapSerial = 3
    /\ getTile(sim.map, op.x, op.y) = 0

\* C16: doTool with a target outside the map (x < 0, x >= W, y < 0 or y >= H)
\* answers FAILED for every tool and every value of total_funds (the bounds
\* test precedes the money test), and changes nothing.
C16_OffMapFails ==
    [][(ToolStep /\ (op'.x < 0 \/ op'.x >= WORLD_W \/ op'.y < 0 \/ op'.y >= WORLD_H))
       => /\ op'.result = "FAILED"
          /\ sim' = sim]_vars

\* C16 witness: a tool the player could not pay was aimed off the map, after
\* an earlier tool had been paid for, and was answered FAILED.
C16_Witness ==
    /\ op.kind = "tool" /\ op.result = "FAILED"
    /\ ~onMap(op.x, op.y)
    /\ TOOL_COSTS[op.tool] > sim.totalFunds
    /\ sim.mapSerial = 2

\* the kind of line a tile word is: road, rail, wire, or none
lineKind(tile) ==
    LET v == getTileValue(tile)
    IN  IF v >= ROADBASE /\ v <= LASTROAD THEN "road"
        ELSE IF v >= RAILBASE /\ v <= LASTRAIL THEN "rail"
        ELSE IF v >= POWERBASE /\ v <= LASTPOWER THEN "wire"
        ELSE "none"

\* the pattern of the neighbours a line cell joins (N=1, E=2, S=4, W=8): a
\* road joins roads, a rail joins rails, a wire joins wires and every other
\* cell that conducts
joinPattern(m, c) ==
    LET x == c[1]
        y == c[2]
    IN  CASE lineKind(m[c]) = "road" ->
               connectPattern(isRoadAt(m, x, y - 1), isRoadAt(m, x + 1, y),
                              isRoadAt(m, x, y + 1), isRoadAt(m, x - 1, y))
          [] lineKind(m[c]) = "rail" ->
               connectPattern(isRailAt(m, x, y - 1), isRailAt(m, x + 1, y),
                              isRailAt(m, x, y + 1), isRailAt(m, x - 1, y))
          [] OTHER ->
               connectPattern(isPowerAt(m, x, y - 1), isPowerAt(m, x + 1, y),
                              isPowerAt(m, x, y + 1), isPowerAt(m, x - 1, y))

\* the first tile of each kind's 16-entry table
firstVariant(kind) ==
    CASE kind = "road" -> ROADS [] kind = "rail" -> LHRAIL [] OTHER -> LHPOWER

\* cell c of map m, if a line, shows the variant of its actual neighbours
wellJoined(m, c) ==
    lineKind(m[c]) # "none"
        => getTileValue(m[c])
             = firstVariant(lineKind(m[c])) + connectTiles[joinPattern(m, c) + 1]

\* the cells where the step added or removed a road, rail or wire cell
editedLines == {c \in Cells : lineKind(sim.map[c]) # lineKind(sim'.map[c])}

nextTo(c) == {<<c[1], c[2] - 1>>, <<c[1] + 1, c[2]>>, <<c[1], c[2] + 1>>, <<c[1] - 1, c[2]>>}

\* C11: after any tool edit that adds or removes a road, rail or wire cell
\* (placement by the road/rail/wire tool, or removal by the bulldozer or by
\* another tool overwriting it), the edited cell and each of its N/E/S/W
\* neighbours that is a road, rail or wire shows the connection variant that
\* the 16-entry table assigns to the pattern of its actual neighbours.
C11_LinesRejoined ==
    [][ToolStep
       => \A c \in editedLines :
             \A d \in ({c} \cup nextTo(c)) \cap Cells : wellJoined(sim'.map, d)]_vars

\* the part of C11 that is about the line tools themselves
C11_PlacementRejoins ==
    [][(ToolStep /\ op'.tool \in {"ROAD", "RAILROAD", "WIRE"})
       => \A c \in editedLines :
             \A d \in ({c} \cup nextTo(c)) \cap Cells : wellJoined(sim'.map, d)]_vars

\* cell c holds what a call of the plan builds: a line, or a building's center
builtAt(c) == lineKind(sim.map[c]) # "none" \/ isZoneCenter(sim.map[c])

\* the calls of C15 have all been made and answered OK: the scenario of the
\* claim, moved by (-8, -8) so that the plant at (10,10) stands at (2,2), the
\* wire at (14,10) at (6,2) and the road at (14,12..14) at (6,4..6)
planBuilt ==
    /\ \A t \in PlanCalls : builtAt(<<t[2], t[3]>>)
    /\ lineKind(sim.map[<<6, 2>>]) = "wire"
    /\ \A y \in 4 .. 6 : lineKind(sim.map[<<6, y>>]) = "road"

\* power_grid at the wire's cell after one power scan
wirePower == worldGet(doPowerScan(sim).powerGridMap, 1, 6, 2)

\* C15 as stated: starting from total_funds = 20000 on clear land, COAL at
\* (10,10), WIRE at (14,10) and ROAD at (14,12), (14,13), (14,14) all answer
\* OK, total_funds is then 16965, and after one power scan power_grid at the
\* wire's cell (14,10) equals 1.
C15_Original ==
    planBuilt => (sim.totalFunds = 16965 /\ wirePower = 1)

\* C15: starting from total_funds = 20000 on clear land, COAL at (10,10),
\* WIRE at (14,10) and ROAD at (14,12), (14,13), (14,14) all answer OK (a
\* call of the plan is refused only where it has built already),
\* total_funds is then 16965, and after one power scan power_grid at the
\* wire's cell (14,10) equals 0, while it equals 1 on each of the 16 cells of
\* the plant: the plant covers columns 8..11 and the wire does not touch it.
C15_PlantWireRoad ==
    /\ (op.kind = "tool" /\ op.result # "OK") => builtAt(<<op.x, op.y>>)
    /\ planBuilt
          => /\ sim.totalFunds = 16965
             /\ wirePower = 0
             /\ \A x \in 0 .. 3, y \in 0 .. 3 :
                   worldGet(doPowerScan(sim).powerGridMap, 1, x, y) = 1

\* C15 witness: the five calls were made and answered OK.
C15_Witness == planBuilt /\ sim.mapSerial = 6 /\ sim.totalFunds < 20000

\* the side of the square a tool builds on, centered with offset size \div 2
listedSize ==
    [RESIDENTIAL |-> 3, COMMERCIAL |-> 3, INDUSTRIAL |-> 3, POLICESTATION |-> 3,
     FIRESTATION |-> 3, STADIUM |-> 4, SEAPORT |-> 4, COALPOWER |-> 4,
     NUCLEARPOWER |-> 4, AIRPORT |-> 6]

listedFootprint(tool, x, y) ==
    {<<x - (listedSize[tool] \div 2) + dx, y - (listedSize[tool] \div 2) + dy>> :
        dx \in 0 .. listedSize[tool] - 1, dy \in 0 .. listedSize[tool] - 1}

\* a call of a zone tool or a building tool that the player can pay
SizedStep ==
    /\ ToolStep /\ op'.tool \in DOMAIN listedSize
    /\ sim.totalFunds >= ListedCost[op'.tool]

\* C17: with sufficient funds, a 3x3 zone tool or an NxN building tool whose
\* footprint (centered with offset floor(N/2)) extends beyond the map answers
\* FAILED and writes no cell, whatever the part of the footprint on the map
\* contains.
C17_OverflowFails ==
    [][(SizedStep /\ ~(listedFootprint(op'.tool, op'.x, op'.y) \subseteq Cells))
       => /\ op'.result = "FAILED"
          /\ sim'.map = sim.map]_vars

\* C18 as stated: doTool(RESIDENTIAL, x, y) with (x, y) a water cell of the
\* map answers NEED_BULLDOZE, for every such cell, every content of the
\* surrounding cells and every position on the map, the cells next to the
\* map edge included.
C18_Original ==
    [][(ToolStep /\ op'.tool = "RESIDENTIAL" /\ onMap(op'.x, op'.y)
          /\ isListedWater(struck))
       => op'.result = "NEED_BULLDOZE"]_vars

\* C18: with sufficient funds, doTool(RESIDENTIAL, x, y) with (x, y) a water
\* cell whose 3x3 footprint lies on the map answers NEED_BULLDOZE, for every
\* such cell and every content of the surrounding cells.
C18_WaterNeedsBulldoze ==
    [][(SizedStep /\ op'.tool = "RESIDENTIAL"
          /\ listedFootprint("RESIDENTIAL", op'.x, op'.y) \subseteq Cells
          /\ isListedWater(struck))
       => op'.result = "NEED_BULLDOZE"]_vars

\* C18 witness: the residential tool was refused with NEED_BULLDOZE on a water
\* cell away from the map edge, after an earlier tool had built on the land
\* around it.
C18_Witness ==
    /\ op.kind = "tool" /\ op.tool = "RESIDENTIAL" /\ op.result = "NEED_BULLDOZE"
    /\ listedFootprint("RESIDENTIAL", op.x, op.y) \subseteq Cells
    /\ isListedWater(getTile(sim.map, op.x, op.y))
    /\ sim.mapSerial = 2
    /\ \E c \in listedFootprint("RESIDENTIAL", op.x, op.y) :
           getTileValue(sim.map[c]) >= ROADBASE

\* C13: for every zone placed by a 3x3 zone tool (residential, commercial,
\* industrial, police station, fire station), with sufficient funds and no
\* simulation step in between: BULLDOZER on the zone's center cell answers OK
\* and changes only that cell to DIRT, and BULLDOZER applied afterwards once
\* to each of the other 8 cells of the footprint answers OK each time, leaving
\* all 9 cells DIRT.  (On the site the 3x3 tools build on, a center with
\* ZONEBIT is a zone just placed, and a cell that is not DIRT beside a DIRT
\* center is a cell of that zone not bulldozed yet.)
C13_ZoneRazedCellByCell ==
    [][(BulldozerStep /\ target \in listedFootprint("RESIDENTIAL", RazeSite[1], RazeSite[2]))
       => /\ (target = RazeSite /\ HasBit(struck, ZONEBIT))
               => /\ op'.result = "OK"
                  /\ sim'.map = [sim.map EXCEPT ![target] = DIRT]
          /\ (target # RazeSite /\ sim.map[RazeSite] = DIRT
                 /\ getTileValue(struck) # DIRT)
               => /\ op'.result = "OK"
                  /\ sim'.map = [sim.map EXCEPT ![target] = DIRT]]_vars

\* the residential, commercial and industrial zones do come down cell by
\* cell: all nine cells of the site are DIRT again after ten paid calls
C13_RazedSite ==
    /\ sim.mapSerial = 1 + MaxRazeCalls
    /\ \A c \in listedFootprint("RESIDENTIAL", RazeSite[1], RazeSite[2]) : sim.map[c] = DIRT

\* a QUERY call
QueryStep == ToolStep /\ op'.tool = "QUERY"

queryChangesNothing ==
    /\ sim'.map = sim.map
    /\ sim'.totalFunds = sim.totalFunds
    /\ sim'.mapSerial = sim.mapSerial

FrameStep == frames' = frames + 1

\* a step of the model that is one simFrame call which ran a simulation step
ExecutedStep == FrameStep /\ op'.executed

\* C3: map_serial never decreases, and every operation (tool call, simulation
\* phase, disaster) that changes the value of at least one map cell leaves
\* map_serial strictly greater than it was.
C3_SerialFollowsMap ==
    [][/\ sim'.mapSerial >= sim.mapSerial
       /\ sim'.map # sim.map => sim'.mapSerial > sim.mapSerial]_vars

\* the cells the map scan of phase p goes through
scannedCells(p) ==
    {c \in Cells : c[1] >= (p - 1) * (WORLD_W \div 8) /\ c[1] < p * (WORLD_W \div 8)}

\* C4: a zone center processed by the map scan (phases 1..8) has its POWERED
\* flag set to the value the most recent power scan computed for its cell.
C4_ZonePowerFollowsScan ==
    [][(ExecutedStep /\ op'.phase \in 1 .. 8)
       => \A c \in scannedCells(op'.phase) :
             (isZoneCenter(sim.map[c]) /\ isZoneCenter(sim'.map[c]))
             => (HasBit(sim'.map[c], PWRBIT) <=> lastScan[c] # 0)]_vars

\* the cells that are a coal or nuclear plant cell or are joined to one by a
\* chain of 4-adjacent CONDUCTIVE cells
RECURSIVE joinedFrom(_, _)
joinedFrom(m, S) ==
    LET more == {c \in Cells \ S :
                    /\ HasBit(m[c], CONDBIT)
                    /\ \E d \in S : Abs(c[1] - d[1]) + Abs(c[2] - d[2]) = 1}
    IN  IF more = {} THEN S ELSE joinedFrom(m, S \cup more)

plantJoined(m) ==
    joinedFrom(m, {c \in Cells : getTileValue(m[c]) \in {POWERPLANT, NUCLEAR}})

\* the last call was a simFrame that ran the power scan of phase 11
afterPowerScan ==
    op.kind = "frame" /\ op.executed /\ op.phase = 11 /\ sim.simCycle % 9 = 0

\* C5: right after a power scan, every map cell with the POWERED flag is a coal
\* or nuclear plant cell or is joined to one through 4-adjacent CONDUCTIVE cells.
C5_PoweredCellsJoinPlant ==
    afterPowerScan => \A c \in Cells : HasBit(sim.map[c], PWRBIT) => c \in plantJoined(sim.map)

\* C7: every executed simulation step runs exactly one phase, the phases run
\* in the cyclic order 0, 1, ..., 15, 0, ..., and sim_cycle and city_time each
\* advance by one in phase 0 and in no other phase.  (The phase a step runs is
\* phaseCycle % 16 as the call finds it; the next one is what the step leaves.)
C7_PhaseOrder ==
    [][IF ExecutedStep
       THEN /\ op'.phase = sim.phaseCycle % 16
            /\ sim'.phaseCycle % 16 = (op'.phase + 1) % 16
            /\ IF op'.phase = 0
               THEN /\ sim'.simCycle = (sim.simCycle + 1) % 1024
                    /\ sim'.cityTime = sim.cityTime + 1
               ELSE /\ sim'.simCycle = sim.simCycle
                    /\ sim'.cityTime = sim.cityTime
       ELSE /\ sim'.phaseCycle = sim.phaseCycle
            /\ sim'.simCycle = sim.simCycle
            /\ sim'.cityTime = sim.cityTime]_vars

\* C7 witness: a second pass has begun: phase 0 ran again after all sixteen
\* phases of the pass before, and city_time has moved twice.
C7_Witness ==
    /\ op.kind = "frame" /\ op.executed /\ op.phase = 0
    /\ frames = 17
    /\ sim.cityTime = QuietPasses + 2

\* C9: a simulation step changes total_funds only when it runs phase 9 with
\* city_time % 48 = 0, and then by exactly
\* cashFlow = taxFund - roadSpend - policeSpend - fireSpend.
C9_FundsChangeOnlyAtTax ==
    [][FrameStep
       => IF op'.executed /\ op'.phase = 9 /\ sim.cityTime % 48 = 0
          THEN /\ sim'.totalFunds = sim.totalFunds + sim'.cashFlow
               /\ sim'.cashFlow = sim'.taxFund - sim'.roadSpend - sim'.policeSpend
                                  - sim'.fireSpend
          ELSE sim'.totalFunds = sim.totalFunds]_vars

\* C9 witness: the tax of pass 144 was collected while a police station built
\* earlier in the pass was on the budget, and the funds went down by its cost.
C9_Witness ==
    /\ op.kind = "frame" /\ op.executed /\ op.phase = 9
    /\ sim.cityTime % 48 = 0
    /\ sim.policeSpend = 100
    /\ sim.cashFlow = -100
    /\ sim.totalFunds = 20000 - 500 - 100

\* a residential zone center as the residential tool leaves it
freshLot(m, c) == isZoneCenter(m[c]) /\ getTileValue(m[c]) = FREEZ + 4

\* no road within reach of the zone at c, and no power plant on the map
unserved(m, c) ==
    /\ \A d \in Cells :
          (Abs(d[1] - c[1]) <= 2 /\ Abs(d[2] - c[2]) <= 2)
             => ~isRoadAt(m, d[1], d[2])
    /\ \A d \in Cells : getTileValue(m[d]) < COALBASE

\* the most people the census counts for a residential center tile
censusOf(tile) == Max(resZonePopOf(getTileValue(tile)))

\* C14: a residential zone placed with no adjacent road and no power never
\* develops: over any number of simulation frames its population never
\* exceeds the value it had when placed, and its center tile stays the
\* empty-lot (FREEZ) tile or a lowest-density tile (a tile below RZB, the
\* first of the blocks of flats).
C14_UnservedZoneStaysEmpty ==
    [][FrameStep
       => \A c \in Cells :
             (freshLot(sim.map, c) /\ unserved(sim.map, c))
                => /\ getTileValue(sim'.map[c]) < RZB
                   /\ censusOf(sim'.map[c]) <= censusOf(sim.map[c])]_vars

\* the tile characters the specification lists for zone centers
listedZoneRanges ==
    (240 .. 404) \cup (423 .. 609) \cup (612 .. 692) \cup (405 .. 422) \cup (693 .. 826)

\* C20: in every state reachable by tool calls and simulation steps, each
\* cell with ZONE_CENTER set has a tile character inside one of the zone
\* ranges: residential 240..404, commercial 423..609, industrial 612..692, or
\* a special building range (405..422 and 693..826).
C20_CentersInZoneRanges ==
    \A c \in Cells :
       isZoneCenter(sim.map[c]) => getTileValue(sim.map[c]) \in listedZoneRanges

\* C20 witness: the center of a coal plant a tool built stands beside a
\* residential center that the simulation has rewritten to a house or a block.
C20_Witness ==
    /\ frames > 0
    /\ \E c \in Cells :
          isZoneCenter(sim.map[c]) /\ getTileValue(sim.map[c]) >= COALBASE
    /\ \E c \in Cells :
          /\ isZoneCenter(sim.map[c])
          /\ getTileValue(sim.map[c]) >= HOUSE
          /\ getTileValue(sim.map[c]) < HOSPITALBASE

\* m[c] is the center of a residential, commercial or industrial zone
isRciCenter(m, c) ==
    /\ isZoneCenter(m[c])
    /\ getTileValue(m[c]) >= RESBASE /\ getTileValue(m[c]) < PORTBASE

\* the other 8 cells of the 3x3 footprint of c
around(c) == footprint(c[1], c[2]) \ {c}

\* C10 as stated: in every reachable state each residential, commercial or
\* industrial zone center is the only ZONE_CENTER cell of its 3x3 footprint
\* and the other 8 cells of the footprint carry BULLDOZABLE.
C10_Original ==
    \A c \in Cells :
        isRciCenter(sim.map, c)
        => \A d \in around(c) : ~isZoneCenter(sim.map[d]) /\ HasBit(sim.map[d], BULLBIT)

\* in every state a zone center is the only ZONE_CENTER cell of its footprint
uniqueCenters ==
    \A c \in Cells :
        isRciCenter(sim.map, c) => \A d \in around(c) : ~isZoneCenter(sim.map[d])

\* a step that places a zone center at c or rewrites the one there
placesZone(c) ==
    /\ isRciCenter(sim'.map, c)
    /\ ~isRciCenter(sim.map, c) \/ getTileValue(sim'.map[c]) # getTileValue(sim.map[c])

\* C10, amended: in every reachable state each residential, commercial or
\* industrial zone center is the only ZONE_CENTER cell of its 3x3 footprint;
\* the other 8 cells of the footprint all carry BULLDOZABLE right after the
\* step that placed the zone or rewrote it (the zone tool, a growth or a
\* decline), not for ever after.
C10_ZoneFootprint ==
    /\ []uniqueCenters
    /\ [][\A c \in Cells :
             placesZone(c) => \A d \in around(c) : HasBit(sim'.map[d], BULLBIT)]_vars

\* C10 witness: a simulation step has rewritten the zone the residential tool
\* placed (houses stand where the empty zone was), next to the coal plant
C10_Witness ==
    /\ op.kind = "frame" /\ op.executed /\ op.phase = 6
    /\ isRciCenter(sim.map, <<5, 1>>)
    /\ getTileValue(sim.map[<<5, 1>>]) >= HOUSE
    /\ \A d \in around(<<5, 1>>) : HasBit(sim.map[d], BULLBIT)
    /\ getTileValue(sim.map[<<2, 2>>]) = COALBASE + 10

(***************************************************************************)
(* Claims about the speed throttle.                                        *)
(***************************************************************************)
\* the simFrame calls the throttle is said to skip between two it lets through
throttleGap(speed) ==
    CASE speed = "SLOW" -> 4
      [] speed = "MEDIUM" -> 2
      [] OTHER -> 0

\* C8: while the speed stays SLOW a phase runs on exactly every 5th simFrame
\* call (4 skipped calls between two that run one), while MEDIUM on every 3rd,
\* while FAST on every call, and while PAUSED on none.
C8_Throttle ==
    /\ (op.kind = "frame" /\ op.executed /\ op.gap >= 0)
       => op.gap = throttleGap(sim.simSpeed)
    /\ (op.kind = "frame" /\ sim.simSpeed = "PAUSED") => ~op.executed

(***************************************************************************)
(* Claims about two instances.                                             *)
(***************************************************************************)
\* C6: whatever two instances did before, after newGame with the same seed
\* and the same simFrame calls, tool inputs and speed selections both have the
\* same map, total_funds and city_time after every step.  (Stated for the
\* steps at which both run at the same speed: the speed selections made since
\* newGame are the same, the speed newGame found may not be.)
C6_Determinism ==
    (~beforeNewGame /\ sim.simSpeed = twin.simSpeed)
    => /\ sim.map = twin.map
       /\ sim.totalFunds = twin.totalFunds
       /\ sim.cityTime = twin.cityTime

(***************************************************************************)
(* Claims about the city's figures.                                        *)
(***************************************************************************)
\* C21: in every state reached through newGame, simFrame, doTool and
\* setCityTax(t) with any integer t, cityScore is within 0 .. 1000 and cityTax
\* is within 0 .. 20
C21_ScoreAndTaxRanges ==
    /\ sim.cityScore \in 0 .. 1000
    /\ sim.cityTax \in 0 .. 20

\* the tax was set above the range and the city was evaluated at the tax
\* collection after it
C21_Witness ==
    /\ sim.cityTax = 20
    /\ op.kind = "frame" /\ op.phase = 9
    /\ sim.cityTime % TAX_FREQUENCY = 0

valves(s) == <<s.resValve, s.comValve, s.indValve>>

valvesInRange(s) ==
    /\ s.resValve \in -2000 .. 2000
    /\ s.comValve \in -1500 .. 1500
    /\ s.indValve \in -1500 .. 1500

\* each component getDemands returns, valve / range, lies in [-1, 1]
demandsInUnit(s) ==
    /\ Abs(s.resValve) <= 1 * RES_VALVE_RANGE
    /\ Abs(s.comValve) <= 1 * COM_VALVE_RANGE
    /\ Abs(s.indValve) <= 1 * IND_VALVE_RANGE

\* C22: in every reachable state the valves are integers with resValve in
\* -2000 .. 2000, comValve and indValve in -1500 .. 1500, so each component of
\* getDemands lies in [-1, 1]; and the valves change only in phase 0 of every
\* other sim cycle (the even ones)
C22_ValvesRangeAndSchedule ==
    [][/\ valvesInRange(sim) /\ valvesInRange(sim')
       /\ demandsInUnit(sim) /\ demandsInUnit(sim')
       /\ valves(sim') # valves(sim) =>
             /\ ExecutedStep
             /\ op'.phase = 0
             /\ sim'.simCycle % 2 = 0]_vars

\* the valves were set anew in phase 0 from the census of the zones placed
C22_Witness ==
    /\ op.kind = "frame" /\ op.phase = 0
    /\ sim.simCycle % 2 = 0
    /\ sim.resValve > 0

(***************************************************************************)
(* Claims about the power scan.                                            *)
(***************************************************************************)
\* a step of the model that is one call of doPowerScan
ScanStep == op'.kind = "scan" /\ frames' = frames + 1

\* C23: the power scan is idempotent: run twice in a row with no map change
\* in between, it gives the same power grid as run once
C23_ScanIdempotent ==
    [][(ScanStep /\ op.kind = "scan") => sim'.powerGridMap = lastScan]_vars

\* the scan ran twice in a row over a plant with wires, and powered them
C23_Witness ==
    /\ op.kind = "scan" /\ frames = 2 /\ calls = 0
    /\ \E c \in Cells : sim.powerGridMap[c] = 1 /\ getTileValue(sim.map[c]) \in POWERBASE .. LASTPOWER

\* whether the propagation from (grid, stack) comes to a push the full stack drops
RECURSIVE pushDropped(_, _, _)
pushDropped(m, grid, stack) ==
    IF stack = <<>> THEN FALSE
    ELSE LET pos == stack[Len(stack)]
             pulled == SubSeq(stack, 1, Len(stack) - 1)
             powered == [grid EXCEPT ![pos] = 1]
             wanted(q) == /\ onMap(q[1], q[2])
                          /\ powered[q] = 0
                          /\ HasBit(m[q], CONDBIT)
             pushes == SelectSeq(directions(pos[1], pos[2]), wanted)
         IN  \/ Len(pulled) + Len(pushes) > powerStackCapacity
             \/ pushDropped(m, powered, pushEach(pulled, pushes))

\* whether the power scan of map m drops a push
scanDrops(m) ==
    LET plant(c) == isPowerSource(m[c])
        plants == SelectSeq(scanOrder, plant)
    IN  \/ Len(plants) > powerStackCapacity
        \/ pushDropped(m, ClearTileMap, pushEach(<<>>, plants))

\* C27: after a power scan in which no push was dropped, the power grid is 1
\* exactly on the plant cells (tile POWERPLANT or NUCLEAR) and on the CONDUCTIVE
\* cells joined to one through 4-adjacent CONDUCTIVE cells, and 0 elsewhere
C27_GridIsPlantClosure ==
    (op.kind = "scan" /\ ~scanDrops(sim.map))
    => \A c \in Cells :
          sim.powerGridMap[c] = IF c \in plantJoined(sim.map) THEN 1 ELSE 0

\* a scan without a dropped push over a plant, wires joined to it and a wire
\* that is not
C27_Witness ==
    /\ op.kind = "scan" /\ ~scanDrops(sim.map)
    /\ \E c, d \in Cells :
          /\ getTileValue(sim.map[c]) \in POWERBASE .. LASTPOWER
          /\ getTileValue(sim.map[d]) \in POWERBASE .. LASTPOWER
          /\ sim.powerGridMap[c] = 1
          /\ sim.powerGridMap[d] = 0

(***************************************************************************)
(* Claims about the overlays and the grid storage.                         *)
(***************************************************************************)
\* a step of the model that is one smoothing pass, its input and its output
SmoothStep == op'.kind = "smooth" /\ frames' = frames + 1
smoothIn == sim.pollutionDensityMap
smoothOut == sim'.pollutionDensityMap

valuesOf(g) == {g[c] : c \in DOMAIN g}
spread(g) == Max(valuesOf(g)) - Min(valuesOf(g))

\* the blocks whose four neighbours are all on the grid
inner(g) ==
    {c \in DOMAIN g :
        {<<c[1] - 1, c[2]>>, <<c[1] + 1, c[2]>>, <<c[1], c[2] - 1>>, <<c[1], c[2] + 1>>}
           \subseteq DOMAIN g}

\* C24 as stated: one smoothing pass (out = floor((4 * center + N + E + S + W)
\* / 8), off-grid neighbours read as 0) is a contraction for every overlay with
\* values in 0 .. 255: max(out) - min(out) <= max(in) - min(in)
C24_Original ==
    [][SmoothStep => spread(smoothOut) <= spread(smoothIn)]_vars

\* C24: one smoothing pass never raises the maximum, max(out) <= max(in), and
\* on the blocks whose four neighbours are on the grid out lies between
\* min(in) and max(in); at the border it can fall below min(in)
C24_SmoothingBounded ==
    [][SmoothStep =>
          /\ Max(valuesOf(smoothOut)) <= Max(valuesOf(smoothIn))
          /\ \A c \in DOMAIN smoothOut : smoothOut[c] >= 0
          /\ \A c \in inner(smoothIn) : smoothOut[c] >= Min(valuesOf(smoothIn))]_vars

\* a flat overlay of 255 was smoothed: the inner blocks keep 255, the corners
\* fall to floor(6 * 255 / 8) = 191
C24_Witness ==
    /\ op.kind = "smooth" /\ frames = 1
    /\ Max(valuesOf(sim.pollutionDensityMap)) = 255
    /\ Min(valuesOf(sim.pollutionDensityMap)) = 191

\* the coordinates read back: the map and one step beyond each edge
Probes == (-1 .. WORLD_W) \X (-1 .. WORLD_H)

\* the overlay a worldSet call of block size b writes
overlayOf(s, b) == IF b = 2 THEN s.landValueMap ELSE s.terrainDensityMap

\* C25: getTile returns 0 for every out-of-bounds coordinate and setTile out
\* of bounds changes nothing; in bounds, setTile(x, y, v) followed by
\* getTile(x, y) returns v and no other cell changes.  For an overlay of block
\* size b, worldSet(x, y, v) followed by worldGet(x', y') returns v exactly for
\* the world coordinates of the same block (floor(x'/b) = floor(x/b) and
\* floor(y'/b) = floor(y/b)), leaves all other blocks unchanged; out-of-bounds
\* world reads return the default 0 and out-of-bounds writes change nothing
C25_GridStorage ==
    [][/\ op'.kind = "setTile" =>
             /\ \A p \in Probes :
                   getTile(sim'.map, p[1], p[2]) =
                      IF ~onMap(p[1], p[2]) THEN 0
                      ELSE IF p = <<op'.x, op'.y>> THEN op'.value
                      ELSE getTile(sim.map, p[1], p[2])
             /\ ~onMap(op'.x, op'.y) => sim' = sim
             /\ sim' = [sim EXCEPT !.map = sim'.map]
       /\ op'.kind = "worldSet" =>
             LET b == op'.block
                 before == overlayOf(sim, b)
                 after == overlayOf(sim', b)
                 sameBlock(p) == /\ p[1] \div b = op'.x \div b
                                 /\ p[2] \div b = op'.y \div b
             IN  /\ \A p \in Probes :
                       worldGet(after, b, p[1], p[2]) =
                          IF ~onMap(p[1], p[2]) THEN 0
                          ELSE IF onMap(op'.x, op'.y) /\ sameBlock(p) THEN op'.value
                          ELSE worldGet(before, b, p[1], p[2])
                 /\ \A c \in DOMAIN before :
                       (~onMap(op'.x, op'.y) \/ c # <<op'.x \div b, op'.y \div b>>)
                       => after[c] = before[c]
                 /\ DOMAIN after = DOMAIN before
                 /\ ~onMap(op'.x, op'.y) => sim' = sim]_vars

\* a cell was written in the far corner of the map, then the 4-block overlay
\* in the block of that corner, which reaches beyond the south edge
C25_Witness ==
    /\ op.kind = "worldSet" /\ op.block = 4 /\ calls = 2
    /\ <<op.x, op.y>> = <<WORLD_W - 1, WORLD_H - 1>>
    /\ worldGet(sim.terrainDensityMap, 4, WORLD_W - 1, WORLD_H - 1) = 200
    /\ getTile(sim.map, WORLD_W - 1, WORLD_H - 1) = WORDSIZE - 1

(***************************************************************************)
(* Claims about the budget.                                                *)
(***************************************************************************)
\* a step of the model that runs the tax collection
TaxStep == ExecutedStep /\ op'.phase = 9 /\ sim.cityTime % TAX_FREQUENCY = 0

intact(m, base, size) ==
    Cardinality({c \in Cells :
        \A dx \in 0 .. size - 1, dy \in 0 .. size - 1 :
           /\ onMap(c[1] + dx, c[2] + dy)
           /\ getTileValue(getTile(m, c[1] + dx, c[2] + dy)) = base + dy * size + dx})

\* the last call was the simFrame that ran phase 8, the end of a scan cycle
afterScanCycle == op.kind = "frame" /\ op.executed /\ op.phase = 8 /\ frames >= 9

\* C28: after a full scan cycle (phases 1 .. 8) with no map change, each
\* special-zone counter equals the number of buildings of its kind that were
\* placed with the tools and stand intact: fireStationPop, policeStationPop,
\* coalPowerPop, nuclearPowerPop, stadiumPop, seaportPop and airportPop
C28_CountersCountBuildings ==
    afterScanCycle =>
       /\ sim.fireStationPop = intact(sim.map, FIRESTBASE, 3)
       /\ sim.policeStationPop = intact(sim.map, POLICESTBASE, 3)
       /\ sim.coalPowerPop = intact(sim.map, COALBASE, 4)
       /\ sim.nuclearPowerPop = intact(sim.map, NUCLEARBASE, 4)
       /\ sim.stadiumPop = intact(sim.map, STADIUMBASE, 4)
       /\ sim.seaportPop = intact(sim.map, PORTBASE, 4)
       /\ sim.airportPop = intact(sim.map, AIRPORTBASE, 6)

\* the zone centers doZone hands to doCommercial and to doIndustrial
comCenters(m) ==
    {c \in Cells : isZoneCenter(m[c]) /\ getTileValue(m[c]) \in COMBASE .. INDBASE - 1}
indCenters(m) ==
    {c \in Cells : isZoneCenter(m[c]) /\ getTileValue(m[c]) \in INDBASE .. PORTBASE - 1}

zonePopsOf(tileValue) ==
    IF tileValue < HOSPITAL THEN resZonePopOf(tileValue)
    ELSE IF tileValue < INDBASE THEN {comZonePopOf(tileValue)}
    ELSE {indZonePopOf(tileValue)}

\* a residential, commercial or industrial center that the scan takes down
\* the decline path: makeTraffic finds no road on the zone's perimeter
declining(m, c) ==
    /\ isZoneCenter(m[c])
    /\ \/ getTileValue(m[c]) \in RESBASE .. HOSPITAL - 1
       \/ getTileValue(m[c]) \in COMBASE .. PORTBASE - 1
    /\ makeTraffic(m, c[1], c[2]) = {-1}

\* C30: a decline step never increases a zone's population: for every
\* residential, commercial or industrial zone center that the map scan takes
\* through doResOut / doComOut / doIndOut, no population the zone processor
\* can compute from the center tile after the step is greater than the
\* greatest it could compute from the center tile before the step.
C30_DeclineNeverRaises ==
    [][(ExecutedStep /\ op'.phase \in 1 .. 8)
       => \A c \in scannedCells(op'.phase) :
             declining(sim.map, c)
                => Max(zonePopsOf(getTileValue(sim'.map[c])))
                      <= Max(zonePopsOf(getTileValue(sim.map[c])))]_vars

\* the world cells of block b of a 2-cell overlay
cellsOfBlock(b) == {c \in Cells : c[1] \div 2 = b[1] /\ c[2] \div 2 = b[2]}

\* the sum, clamped to 255, of the contributions of the world cells of each
\* block: what the claim takes the temporary overlay to hold
summedPollution(s) ==
    LET RECURSIVE total(_)
        total(S) == IF S = {} THEN 0
                    ELSE LET c == CHOOSE d \in S : TRUE
                         IN  pollutionAt(s, c) + total(S \ {c})
    IN  [b \in BlockCells(2) |-> Min({255, total(cellsOfBlock(b))})]

\* a step of the model that is one call of pollutionTerrainLandValueScan
PollutionStep == op'.kind = "pollution" /\ frames' = frames + 1

\* C31: in the pollution scan the value written to the temporary overlay for
\* a 2x2 block is the sum, clamped to 255, of the contributions of all world
\* cells of that block, so the pollution overlay the scan leaves is that
\* overlay of sums smoothed twice.
C31_BlockHoldsSum ==
    [][PollutionStep
       => sim'.pollutionDensityMap = smoothMap(smoothMap(summedPollution(sim)))]_vars

\* C32: every sprite appended to the sprite list has its count decremented
\* each tick and is removed from the list once its count reaches 0: a tick
\* (an executed simulation step) leaves no sprite of the list in the list with
\* the count it had.
C32_SpritesExpire ==
    [][ExecutedStep
       => \A i \in DOMAIN sim.sprites :
             sim.sprites[i] \notin {sim'.sprites[j] : j \in DOMAIN sim'.sprites}]_vars

\* C33: total_funds is never negative in any state reachable from new_game
\* through tool calls, simulation steps (including tax collection with
\* under-funded road, police and fire budgets), set_city_tax and
\* set_game_level.
C33_FundsNeverNegative == sim.totalFunds >= 0

\* C33 witness: a tax collection has paid part, but not all, of the budgets
\* because the funds fell short.
C33_Witness ==
    /\ op.kind = "frame" /\ op.executed /\ op.phase = 9
    /\ sim.cityTime % TAX_FREQUENCY = 0
    /\ sim.policeSpend > 0
    /\ sim.policeSpend < sim.policeFund
    /\ sim.cashFlow < 0
    /\ sim.totalFunds < 100

\* C34: every power scan terminates: although a cell can be pushed more than
\* once before it is marked, the stack becomes empty after finitely many
\* passes of the loop.
C34_ScanTerminates == <>(sim.powerStack = <<>>)

\* C34 witness: the loop has ended after pulling a cell that was powered
\* already, that is, a cell that had been pushed more than once.
C34_Witness == sim.powerStack = <<>> /\ op.kind = "pull" /\ calls > 0

\* a tile of one of the three ranges fixSingle re-stitches
stitchable(tile) ==
    LET v == getTileValue(tile)
    IN  \/ v >= ROADS /\ v <= INTERSECTION
        \/ v >= LHRAIL /\ v <= LVRAIL10
        \/ v >= LHPOWER /\ v <= LVPOWER10

\* a step of the model that is a ROAD, RAILROAD or WIRE call answered OK
PlacementStep ==
    ToolStep /\ op'.tool \in {"ROAD", "RAILROAD", "WIRE"} /\ op'.result = "OK"

\* C35: after each successful ROAD, RAIL or WIRE placement the placed cell
\* and each of its in-bounds N/E/S/W neighbours of a stitchable kind hold the
\* table variant of their current neighbour pattern; in particular a road
\* placed east of a road that had no road neighbour is the variant for west
\* only (pattern 8) and leaves that road as the variant for east only
\* (pattern 2).
C35_PlacementStitches ==
    [][PlacementStep
       => LET c == <<op'.x, op'.y>>
              west == <<op'.x - 1, op'.y>>
          IN  /\ stitchable(sim'.map[c])
              /\ \A d \in ({c} \cup nextTo(c)) \cap Cells :
                    stitchable(sim'.map[d]) => wellJoined(sim'.map, d)
              /\ (/\ op'.tool = "ROAD"
                  /\ west \in Cells
                  /\ lineKind(sim.map[west]) = "road"
                  /\ joinPattern(sim.map, west) = 0
                  /\ \A d \in nextTo(c) \cap Cells :
                        d # west => lineKind(sim.map[d]) # "road")
                    => /\ getTileValue(sim'.map[west]) = ROADS + connectTiles[2 + 1]
                       /\ getTileValue(sim'.map[c]) = ROADS + connectTiles[8 + 1]]_vars

\* C35 witness: the second of two ROAD calls on clear land, at (x, y) and at
\* (x + 1, y), has been answered OK; the two roads have each other as their
\* only road neighbour.
C35_Witness ==
    /\ op.kind = "tool" /\ op.tool = "ROAD" /\ op.result = "OK" /\ calls = 2
    /\ <<op.x - 1, op.y>> \in Cells
    /\ {d \in Cells : lineKind(sim.map[d]) # "none"} = {<<op.x - 1, op.y>>, <<op.x, op.y>>}
    /\ joinPattern(sim.map, <<op.x - 1, op.y>>) = 2
    /\ joinPattern(sim.map, <<op.x, op.y>>) = 8

\* the tile character is in the fire range 56..63
burning(tile) == getTileValue(tile) >= FIRE /\ getTileValue(tile) <= FIRE + 7

\* the tile character is a flood tile (48..51) or the radiation tile (52)
floodOrRadiation(tile) == getTileValue(tile) >= FLOOD /\ getTileValue(tile) <= RADTILE

\* C36: the map scan processes as fire only cells whose tile character is in
\* the fire range 56..63: while no cell of the map is burning, a scan phase
\* counts nothing in firePop, ignites no cell, and leaves every flood tile
\* (48..51) and radiation tile (52) as it is.
C36_OnlyFireBurns ==
    [][(ExecutedStep /\ op'.phase \in 1 .. 8 /\ \A c \in Cells : ~burning(sim.map[c]))
       => /\ sim'.firePop = sim.firePop
          /\ \A c \in Cells : ~burning(sim'.map[c])
          /\ \A c \in Cells : floodOrRadiation(sim.map[c]) => sim'.map[c] = sim.map[c]]_vars

\* the value speedCycle takes in a simFrame call made in state s
nextCycle(s) == (s.speedCycle + 1) % 1024

rejectionBound(n) == (65536 \div (n + 1)) * (n + 1)

C38_RejectsAboveBound ==
    op.kind = "random" =>
        LET n == op.x
            accepted == {i \in 1 .. Len(op.draws) : op.draws[i] < rejectionBound(n)}
        IN  /\ op.executed <=> accepted # {}
            /\ op.executed =>
                  /\ \A i \in accepted : op.used <= i
                  /\ op.used \in accepted
                  /\ op.value = op.draws[op.used] % (n + 1)
                  /\ op.value \in 0 .. n

(***************************************************************************)
(* C39: loadModel deduplicates loads.  Whatever the interleaving of        *)
(* loadModel calls (those of preloadAll included), loader callbacks and    *)
(* resumed callers: a load of a path is started only when every earlier    *)
(* load of that path has failed, so no second load starts while one is in  *)
(* flight nor after one has succeeded; a caller that called while a load   *)
(* of its path was in flight starts none and receives that load's result;  *)
(* a failed load gives null to its caller and leaves the cache without the *)
(* path, and once its callers have resumed the next call starts a new load.*)
(***************************************************************************)
loadsOf(path) == {i \in 1 .. Len(sim.loads) : sim.loads[i].path = path}

callersOf(path) == {c \in 1 .. Len(sim.callers) : sim.callers[c].path = path}

C39_LoadsDeduplicated ==
    /\ \A path \in ModelPaths : \A i, j \in loadsOf(path) :
          i < j => sim.loads[i].state = "null"
    /\ \A c \in 1 .. Len(sim.callers) :
          LET call == sim.callers[c]
          IN  /\ call.overlapped # 0
                    => /\ ~call.starter
                       /\ call.received \in {pending, resolved(sim, call.overlapped)}
              /\ (call.promise # 0 /\ sim.loads[call.promise].state = "null")
                    => call.received \in {pending, null}
    /\ \A path \in ModelPaths :
          (\A i \in loadsOf(path) : sim.loads[i].state = "null")
             => /\ sim.modelCache[path] = 0
                /\ (\A c \in callersOf(path) : sim.callers[c].received # pending)
                      => Len(loadModel(sim, path).loads) = Len(sim.loads) + 1

C39_Witness ==
    /\ Len(sim.loads) = 2
    /\ sim.loads[1] = [path |-> "house.glb", state |-> "null"]
    /\ sim.loads[2] = [path |-> "house.glb", state |-> "model"]
    /\ \E c \in 1 .. Len(sim.callers) :
          /\ sim.callers[c].overlapped = 2
          /\ sim.callers[c].received = modelOf(2)
    /\ sim.callers[1].received = null

(***************************************************************************)
(* C40: the power stack pointer stays within 0 .. floor(W * H / 4), during *)
(* the scan and between scans, whatever the zone processing of the map     *)
(* scan pushes.  A pass of the loop pulls from a stack that is not empty;  *)
(* the pushes of a pass and of the start of a scan are stored in order up  *)
(* to the capacity and the ones beyond it are dropped, the entries below   *)
(* and the power grid being as they are without them.                      *)
(***************************************************************************)
upToCapacity(positions) ==
    SubSeq(positions, 1, Min({Len(positions), powerStackCapacity}))

C40_PointerInRange ==
    [][/\ Len(sim.powerStack) \in 0 .. powerStackCapacity
       /\ Len(sim'.powerStack) \in 0 .. powerStackCapacity
       /\ op'.kind = "begin"
             => sim'.powerStack =
                   upToCapacity(SelectSeq(scanOrder,
                                          LAMBDA c : getTileValue(sim.map[c])
                                                        \in {POWERPLANT, NUCLEAR}))
       /\ op'.kind = "pull"
             => /\ Len(sim.powerStack) > 0
                /\ LET pos == <<op'.x, op'.y>>
                       below == SubSeq(sim.powerStack, 1, Len(sim.powerStack) - 1)
                       wanted(q) == /\ q \in Cells
                                    /\ q # pos
                                    /\ sim.powerGridMap[q] = 0
                                    /\ HasBit(sim.map[q], CONDBIT)
                       pushes == SelectSeq(directions(pos[1], pos[2]), wanted)
                   IN  /\ pos = sim.powerStack[Len(sim.powerStack)]
                       /\ sim'.powerStack = upToCapacity(below \o pushes)
                       /\ sim'.powerGridMap = [sim.powerGridMap EXCEPT ![pos] = 1]
       /\ op'.kind \in {"frame", "tool"}
             => \/ sim'.powerStack = <<>>
                \/ /\ Len(sim'.powerStack) >= Len(sim.powerStack)
                   /\ SubSeq(sim'.powerStack, 1, Len(sim.powerStack)) = sim.powerStack]_vars

\* a pass of the loop has left the stack full and dropped the push of a
\* conducting, unpowered neighbour of the position it pulled
C40_Witness ==
    /\ op.kind = "pull"
    /\ Len(sim.powerStack) = powerStackCapacity
    /\ \E i \in 1 .. 4 :
          LET q == directions(op.x, op.y)[i]
          IN  /\ q \in Cells
              /\ sim.powerGridMap[q] = 0
              /\ HasBit(sim.map[q], CONDBIT)
              /\ \A k \in 1 .. Len(sim.powerStack) : sim.powerStack[k] # q

====
